---- MODULE Spec2Model ----
(***************************************************************************)
(* A model of the request execution pipeline of caelisco/http-client (v2): *)
(* options.Option and its redirect counter, the package-level doRequest    *)
(* with its manual redirect handling, and the reusable Client that merges  *)
(* a clone of its global options into the options of every call.           *)
(*                                                                         *)
(* Strings that the code inspects (URLs, schemes, Location values) are     *)
(* sequences of one-character strings, so that strings.HasPrefix,          *)
(* TrimPrefix, Contains and len() are computed as the code computes them.  *)
(* Payload and body bytes are sequences of small numbers.                  *)
(*                                                                         *)
(* The transport is net/http's Client.Do.  It runs the CheckRedirect hook  *)
(* that doRequest installs only for a response it would itself follow:     *)
(* a 301/302/303 with a Location, or a 307/308 with a Location whose       *)
(* request body it could replay (Request.GetBody set, or no body).         *)
(***************************************************************************)
EXTENDS Integers, Sequences, FiniteSets, TLC

(***************************************************************************)
(* Bounds of the model.                                                    *)
(***************************************************************************)
NProcs == 2
MaxCalls == 2
DispatchCap == 3
MaxCount == 3
MaxMaxRedirects == 2

Procs == 1..NProcs

Min(a, b) == IF a < b THEN a ELSE b

(***************************************************************************)
(* Strings as character sequences (package strings).                       *)
(***************************************************************************)
HasPrefix(s, p) == Len(p) <= Len(s) /\ SubSeq(s, 1, Len(p)) = p

\* A trimming that trims nothing.
TrimPrefixKeep(s, p) == s

TrimPrefix(s, p) == IF HasPrefix(s, p) THEN SubSeq(s, Len(p) + 1, Len(s)) ELSE s

Contains(s, p) == \E i \in 1..(Len(s) - Len(p) + 1) : SubSeq(s, i, i + Len(p) - 1) = p

\* The least index at which p occurs in s, 0 when it does not occur.
Index(s, p) ==
  IF Contains(s, p)
  THEN CHOOSE i \in 1..(Len(s) - Len(p) + 1) :
         /\ SubSeq(s, i, i + Len(p) - 1) = p
         /\ \A j \in 1..(i - 1) : SubSeq(s, j, j + Len(p) - 1) # p
  ELSE 0

RECURSIVE TrimLeft(_)
TrimLeft(s) == IF s # <<>> /\ Head(s) = " " THEN TrimLeft(Tail(s)) ELSE s

RECURSIVE TrimRight(_)
TrimRight(s) ==
  IF s # <<>> /\ s[Len(s)] = " " THEN TrimRight(SubSeq(s, 1, Len(s) - 1)) ELSE s

TrimSpace(s) == TrimRight(TrimLeft(s))

(***************************************************************************)
(* URLs.                                                                   *)
(***************************************************************************)
SchemeHTTP == <<"h", "t", "t", "p", ":", "/", "/">>
SchemeHTTPS == <<"h", "t", "t", "p", "s", ":", "/", "/">>
SchemeSep == <<":", "/", "/">>
Colon == <<":">>
Slash == <<"/">>
HexDigits == {"0", "1", "2", "3", "4", "5", "6", "7", "8", "9", "a", "b", "c", "d", "e", "f"}

\* The part of an absolute URL after "://".
AfterScheme(u) == SubSeq(u, Index(u, SchemeSep) + 3, Len(u))

\* The authority of an absolute URL: what follows "://" up to the next "/".
Authority(u) ==
  LET r == AfterScheme(u)
      i == Index(r, Slash)
  IN  IF i = 0 THEN r ELSE SubSeq(r, 1, i - 1)

\* scheme://authority of an absolute URL.
SchemeAndHost(u) == SubSeq(u, 1, Index(u, SchemeSep) + 2 + Len(Authority(u)))

\* net/url.Parse of a string that carries a scheme: it refuses a space in the
\* host and a "%" that does not start a two-digit hexadecimal escape.
ParseOK(u) ==
  /\ Contains(u, SchemeSep)
  /\ ~Contains(Authority(u), <<" ">>)
  /\ \A i \in 1..Len(u) :
       u[i] = "%" => /\ i + 2 <= Len(u)
                     /\ u[i + 1] \in HexDigits
                     /\ u[i + 2] \in HexDigits

\* (*url.URL).String() of a parsed URL: a space of the path is written %20.
RECURSIVE EscapeSpaces(_)
EscapeSpaces(s) ==
  IF s = <<>> THEN <<>>
  ELSE (IF Head(s) = " " THEN <<"%", "2", "0">> ELSE <<Head(s)>>) \o EscapeSpaces(Tail(s))

URLString(u) == EscapeSpaces(u)

\* (*url.URL).ResolveReference(ref).String() for an absolute reference and for
\* a reference that is an absolute path.
ResolveReference(base, ref) ==
  IF Contains(ref, SchemeSep) THEN URLString(ref)
  ELSE URLString(SchemeAndHost(base) \o ref)

\* A normalisation that checks nothing.
normaliseURLUnchecked(url0, protocolScheme) ==
  [ok |-> TRUE, url |-> SchemeHTTPS \o TrimSpace(url0)]

normaliseURL(url0, protocolScheme) ==
  LET url == TrimSpace(url0)
  IN  IF Contains(url, Colon) /\ ~Contains(url, SchemeSep)
      THEN [ok |-> FALSE, url |-> <<>>]
      ELSE LET u2 ==
                 IF protocolScheme # <<>>
                 THEN LET t == TrimPrefix(TrimPrefix(url, SchemeHTTP), SchemeHTTPS)
                          ps == IF ~Contains(protocolScheme, SchemeSep)
                                THEN protocolScheme \o SchemeSep
                                ELSE protocolScheme
                      IN  IF ~HasPrefix(t, ps) THEN ps \o t ELSE t
                 ELSE IF ~HasPrefix(url, SchemeHTTP) /\ ~HasPrefix(url, SchemeHTTPS)
                      THEN SchemeHTTPS \o url
                      ELSE url
           IN  IF ParseOK(u2) THEN [ok |-> TRUE, url |-> u2]
               ELSE [ok |-> FALSE, url |-> <<>>]

(***************************************************************************)
(* package options: the Option object.                                     *)
(*                                                                         *)
(* Header maps a key to its list of values.  Cookies is a list of          *)
(* name/value pairs.  file is the state of the *os.File the object holds:  *)
(* "nil", "open" or "closed".  client tells which *http.Client the object  *)
(* carries: "own" (the one defaultOption made for it), "shared" (the       *)
(* reusable Client's, put there by SetClient) or "nil".                    *)
(***************************************************************************)
DefaultMaxRedirects == 10

CompressionNone == ""
CompressionGzip == "gzip"
CompressionDeflate == "deflate"
CompressionBrotli == "br"
CompressionCustom == "custom"
IdentifierNone == ""

\* The response sink: its type and the path of the file to write.
WriteToBuffer == "buffer"
WriteToFile == "file"
NoWriter == [Type |-> "", FilePath |-> ""]

\* The stage at which the upload progress is taken.
TrackBeforeCompression == "before"
TrackAfterCompression == "after"

NoHeader == [k \in {} |-> <<>>]

\* The zero value &options.Option{}.  CustomCompressor tells whether the
\* hook is set; CustomDecompressor is "nil", or names what the hook does when
\* it is called: "ok" (it returns a reader) or "err" (it returns an error).
ZeroOption ==
  [initialised |-> FALSE, client |-> "nil", filename |-> "", file |-> "nil",
   Header |-> NoHeader, Cookies |-> <<>>, ProtocolScheme |-> <<>>,
   Compression |-> CompressionNone, FollowRedirects |-> FALSE,
   PreserveMethodOnRedirect |-> FALSE, MaxRedirects |-> 0, currRedirect |-> 0,
   UniqueIdentifierType |-> IdentifierNone,
   CustomCompressionType |-> "", CustomCompressor |-> FALSE,
   CustomDecompressor |-> "nil", ResponseWriter |-> NoWriter,
   OnUploadProgress |-> FALSE, OnDownloadProgress |-> FALSE,
   ProgressTracking |-> TrackBeforeCompression]

defaultOption ==
  [ZeroOption EXCEPT !.initialised = TRUE, !.client = "own",
                     !.MaxRedirects = DefaultMaxRedirects,
                     !.UniqueIdentifierType = "ulid",
                     !.ResponseWriter = [Type |-> WriteToBuffer, FilePath |-> ""]]

\* http.Header.Set: the key's values become the one value.
HeaderSet(h, key, value) ==
  [k \in DOMAIN h \cup {key} |-> IF k = key THEN <<value>> ELSE h[k]]

\* A deletion that leaves the key in place.
HeaderKeep(h, key) == h

HeaderDel(h, key) == [k \in DOMAIN h \ {key} |-> h[k]]

\* http.Header.Get: the first value of the key, "" when there is none.
HeaderGet(h, key) == IF key \in DOMAIN h /\ h[key] # <<>> THEN h[key][1] ELSE ""

AddHeader(opt, key, value) == [opt EXCEPT !.Header = HeaderSet(@, key, value)]

AddCookie(opt, cookie) == [opt EXCEPT !.Cookies = Append(@, cookie)]

Redirects(opt, enabled, preserve) ==
  [opt EXCEPT !.FollowRedirects = enabled, !.PreserveMethodOnRedirect = preserve]

SetMaxRedirects(opt, size) == [opt EXCEPT !.MaxRedirects = size]

SetProtocolScheme(opt, scheme) ==
  [opt EXCEPT !.ProtocolScheme =
     IF Len(scheme) >= 3 /\ SubSeq(scheme, Len(scheme) - 2, Len(scheme)) = SchemeSep
     THEN scheme ELSE scheme \o SchemeSep]

SetCompression(opt, compressionType) == [opt EXCEPT !.Compression = compressionType]

SetClient(opt, client) == [opt EXCEPT !.client = client]

\* The headers of src replace those of opt key by key.
MergeHeader(dst, src) ==
  [k \in DOMAIN dst \cup DOMAIN src |-> IF k \in DOMAIN src THEN src[k] ELSE dst[k]]

\* A cookie of src replaces the first cookie of the same name, or is appended.
RECURSIVE MergeCookies(_, _)
MergeCookies(dst, src) ==
  IF src = <<>> THEN dst
  ELSE LET sc == Head(src)
           hit == {i \in 1..Len(dst) : dst[i].Name = sc.Name}
       IN  IF hit # {}
           THEN LET i == CHOOSE j \in hit : \A k \in hit : j <= k
                IN  MergeCookies([dst EXCEPT ![i] = sc], Tail(src))
           ELSE MergeCookies(Append(dst, sc), Tail(src))

\* opt.Merge(src): the value of opt after the call.  The redirect flags and
\* MaxRedirects are copied whatever their value; the strings only when set.
\* filename, file, client and currRedirect are not touched.
Merge(opt, src) ==
  [opt EXCEPT
     !.Header = MergeHeader(opt.Header, src.Header),
     !.Cookies = MergeCookies(opt.Cookies, src.Cookies),
     !.FollowRedirects = src.FollowRedirects,
     !.PreserveMethodOnRedirect = src.PreserveMethodOnRedirect,
     !.MaxRedirects = src.MaxRedirects,
     !.ResponseWriter = IF src.ResponseWriter.Type # "" THEN src.ResponseWriter ELSE @,
     !.CustomCompressionType =
        IF src.CustomCompressionType # "" THEN src.CustomCompressionType ELSE @,
     !.CustomCompressor = IF src.CustomCompressor THEN TRUE ELSE @,
     !.CustomDecompressor =
        IF src.CustomDecompressor # "nil" THEN src.CustomDecompressor ELSE @,
     !.OnUploadProgress = IF src.OnUploadProgress THEN TRUE ELSE @,
     !.OnDownloadProgress = IF src.OnDownloadProgress THEN TRUE ELSE @,
     !.ProtocolScheme = IF src.ProtocolScheme # <<>> THEN src.ProtocolScheme ELSE @,
     !.Compression = IF src.Compression # "" THEN src.Compression ELSE @,
     !.UniqueIdentifierType =
        IF src.UniqueIdentifierType # "" THEN src.UniqueIdentifierType ELSE @]

\* options.New(o): o itself when it was made by New, else the defaults with o
\* merged over them (a new object).
\* A New that hands every call a counter at zero.
NewReset(o) == IF o.initialised THEN [o EXCEPT !.currRedirect = 0] ELSE Merge(defaultOption, o)

New(o) == IF o.initialised THEN o ELSE Merge(defaultOption, o)

HasFileHandle(opt) == opt.file # "nil"

\* opt.CheckRedirects(): the object after the call and the value returned.
CheckRedirects(opt) ==
  LET n == opt.currRedirect + 1
  IN  [opt |-> [opt EXCEPT !.currRedirect = n], hit |-> (n = opt.MaxRedirects)]

\* Client.CloneGlobalOptions: a default Option that carries copies of the
\* headers and of the cookies of the global one, and nothing else of it.
CloneGlobalOptions(global) ==
  [defaultOption EXCEPT !.Header = global.Header, !.Cookies = global.Cookies]

(***************************************************************************)
(* Payloads.  kind is the dynamic type of the value the caller passes:     *)
(* "nil", "bytes" (a byte slice), "string", "buffer" (a pointer to a       *)
(* bytes.Buffer, data is its unread part), "file" (an os.File handle, name *)
(* is its path), "reader" (any other io.Reader) and "bad" (a type that     *)
(* CreatePayloadReader does not know).                                     *)
(***************************************************************************)
FileName == "f"
FileContent == <<3, 4>>

NilPayload == [kind |-> "nil", data |-> <<>>, name |-> ""]
FilePayload == [kind |-> "file", data |-> FileContent, name |-> FileName]

\* Every method taken for one that carries a payload.
AnyMethods == {"GET", "HEAD", "DELETE", "POST", "PUT", "PATCH"}

BodyMethods == {"POST", "PUT", "PATCH"}

NoReader == [present |-> FALSE, kind |-> "nil", data |-> <<>>, size |-> 0, broken |-> FALSE]

\* opt.SetFile(file): the object keeps the handle and its name.
SetFile(opt, payload) == [opt EXCEPT !.file = "open", !.filename = payload.name]

\* opt.ReopenFile(): os.Open of the recorded name; the handle is nil when the
\* open fails.
ReopenFile(opt, opened) == [opt EXCEPT !.file = IF opened THEN "open" ELSE "nil"]

\* opt.CreatePayloadReader(payload), fileState being the state of the handle
\* when the payload is a file: a closed file cannot be read and its size
\* probe yields 0.
CreatePayloadReader(payload, fileState) ==
  CASE payload.kind = "nil" -> [ok |-> TRUE, reader |-> NoReader, size |-> -1]
    [] payload.kind \in {"bytes", "string"} ->
         [ok |-> TRUE,
          reader |-> [present |-> TRUE, kind |-> payload.kind, data |-> payload.data,
                      size |-> Len(payload.data), broken |-> FALSE],
          size |-> Len(payload.data)]
    [] payload.kind = "file" ->
         LET open == fileState = "open"
             n == IF open THEN Len(payload.data) ELSE 0
         IN  [ok |-> TRUE,
              reader |-> [present |-> TRUE, kind |-> "file",
                          data |-> IF open THEN payload.data ELSE <<>>,
                          size |-> n, broken |-> ~open],
              size |-> n]
    [] payload.kind \in {"buffer", "reader"} ->
         [ok |-> TRUE,
          reader |-> [present |-> TRUE, kind |-> payload.kind, data |-> payload.data,
                      size |-> -1, broken |-> FALSE],
          size |-> -1]
    [] OTHER -> [ok |-> FALSE, reader |-> NoReader, size |-> -1]

(***************************************************************************)
(* Requests.                                                               *)
(***************************************************************************)
\* The first byte of what each compressor writes.
Magic(alg) ==
  CASE alg = CompressionGzip -> 31
    [] alg = CompressionDeflate -> 120
    [] alg = CompressionBrotli -> 27
    [] OTHER -> 99

\* What a compressor writes for the bytes it is given: its header, the
\* bytes, and a trailer that tells how many there were.
Compress(alg, data) == <<Magic(alg)>> \o data \o <<Len(data)>>

NoRequest ==
  [method |-> "", url |-> <<>>, hasBody |-> FALSE, body |-> <<>>, kind |-> "nil",
   wrapped |-> FALSE, broken |-> FALSE, Header |-> NoHeader, Cookies |-> <<>>]

\* (*http.Request).AddCookie on a request whose Header is h.
RECURSIVE AddCookies(_, _)
AddCookies(h, cookies) ==
  IF cookies = <<>> THEN h
  ELSE LET s == Head(cookies).Name \o "=" \o Head(cookies).Value
           c == HeaderGet(h, "Cookie")
       IN  AddCookies(HeaderSet(h, "Cookie", IF c # "" THEN c \o "; " \o s ELSE s),
                      Tail(cookies))

\* The Content-Encoding header of a compressed request.
ContentEncoding(opt) ==
  IF opt.Compression # CompressionCustom THEN opt.Compression
  ELSE IF opt.CustomCompressionType # "" THEN opt.CustomCompressionType
  ELSE "application/octet-stream"

\* prepareRequest: the request, and the Option after the call.  The request's
\* header map is the Option's own map, so the compression headers and the
\* Cookie header land in the Option as well.
prepareRequest(method, url, reader, opt) ==
  LET compress == reader.present /\ opt.Compression # CompressionNone
      h1 == IF compress
            THEN HeaderSet(HeaderDel(HeaderSet(opt.Header, "Transfer-Encoding", "chunked"),
                                     "Content-Length"),
                           "Content-Encoding", ContentEncoding(opt))
            ELSE opt.Header
      h2 == AddCookies(h1, opt.Cookies)
  IN  [req |-> [method |-> method, url |-> url, hasBody |-> reader.present,
                body |-> IF compress THEN Compress(opt.Compression, reader.data)
                        ELSE reader.data,
                kind |-> reader.kind, wrapped |-> compress, broken |-> reader.broken,
                Header |-> h2, Cookies |-> opt.Cookies],
       opt |-> [opt EXCEPT !.Header = h2]]

\* Whether net/http can send the body again: http.NewRequest sets GetBody for
\* a *bytes.Reader, a *strings.Reader and a *bytes.Buffer only, and a request
\* without a body needs none.
Replayable(req) ==
  \/ ~req.hasBody
  \/ req.kind \in {"bytes", "string", "buffer"} /\ ~req.wrapped

\* A test that finds a Location in every answer.
LocationNeverMissing(loc) == FALSE

\* The test doRequest makes of the Location header of a redirect.
LocationMissing(loc) == loc = <<>>

\* A test that takes every status of the 300 class for a redirect.
isRedirectAll(statusCode) == statusCode >= 300 /\ statusCode < 400

\* A test that takes no status for a redirect.
isRedirectNever(statusCode) == FALSE

isRedirect(statusCode) == statusCode \in {301, 302, 303, 307, 308}

\* Whether http.Client.Do calls CheckRedirect for the response: it does for a
\* response it would follow, and it follows a 307 or 308 only when it can
\* replay the body.
HookCalled(req, status, loc) ==
  /\ loc # <<>>
  /\ \/ status \in {301, 302, 303}
     \/ status \in {307, 308} /\ Replayable(req)

(***************************************************************************)
(* package response: the record handed back to the caller.                 *)
(***************************************************************************)
NoError == [kind |-> "nil", n |-> 0]

Error(kind, n) == [kind |-> kind, n |-> n]

ZeroResponse ==
  [URL |-> <<>>, Method |-> "", StatusCode |-> 0, HdrLocation |-> <<>>, Body |-> <<>>,
   Error |-> NoError, Redirected |-> FALSE, Location |-> <<>>]

ResponseNew(url, method) == [ZeroResponse EXCEPT !.URL = url, !.Method = method]

\* r.PopulateResponse(resp): resp.Request.URL.String() is requestURL.
PopulateResponse(r, status, loc, requestURL) ==
  LET differ == Len(requestURL) # Len(r.URL)
  IN  [r EXCEPT !.StatusCode = status, !.HdrLocation = loc,
                !.Redirected = IF differ THEN TRUE ELSE @,
                !.Location = IF differ THEN requestURL ELSE @]

\* processResponse with the buffer writer: the body is kept in the record.
processResponse(r, status, loc, body, requestURL) ==
  PopulateResponse([r EXCEPT !.Body = body], status, loc, requestURL)

(***************************************************************************)
(* The body transfer: streams, the progress decorator, the compressor and  *)
(* the pipe between the compressing goroutine and the transport.           *)
(*                                                                         *)
(* A stream is its bytes, its read position, whether it can seek, and the  *)
(* position at which a read of it fails (-1: never).                       *)
(***************************************************************************)
ChunkSize == 1

NoStream == [data |-> <<>>, pos |-> 0, seekable |-> FALSE, failAt |-> -1]

\* One Read of a stream: the bytes delivered, the error returned and the
\* stream afterwards.
StreamRead(s) ==
  IF s.pos = s.failAt THEN [bytes |-> <<>>, err |-> "err", stream |-> s]
  ELSE IF s.pos >= Len(s.data) THEN [bytes |-> <<>>, err |-> "eof", stream |-> s]
  ELSE LET to == Min(Min(s.pos + ChunkSize, Len(s.data)),
                     IF s.failAt > s.pos THEN s.failAt ELSE Len(s.data))
       IN  [bytes |-> SubSeq(s.data, s.pos + 1, to), err |-> "nil",
            stream |-> [s EXCEPT !.pos = to]]

\* The size probe of CreatePayloadReader: Seek(0, SeekStart), then the
\* position is taken, the end is sought, and the position taken is restored.
ProbeSize(s) ==
  IF s.seekable
  THEN LET atStart == [s EXCEPT !.pos = 0]
           currentPos == atStart.pos
       IN  [stream |-> [s EXCEPT !.pos = currentPos], size |-> Len(s.data)]
  ELSE [stream |-> s, size |-> -1]

\* Seek(0, SeekEnd) followed by Seek(0, SeekStart).
SeekEndStart(s) == [stream |-> [s EXCEPT !.pos = 0], size |-> Len(s.data)]

\* The reader and the size CreatePayloadReader returns for a payload; the
\* payload of a transfer also tells where its handle stands (pos) and where
\* reading it fails (failAt).
PayloadStream(payload) ==
  CASE payload.kind = "nil" ->
         [ok |-> TRUE, present |-> FALSE, stream |-> NoStream, size |-> -1]
    [] payload.kind \in {"bytes", "string"} ->
         [ok |-> TRUE, present |-> TRUE,
          stream |-> [data |-> payload.data, pos |-> 0, seekable |-> TRUE, failAt |-> -1],
          size |-> Len(payload.data)]
    [] payload.kind = "file" ->
         LET pr == ProbeSize([data |-> payload.data, pos |-> payload.pos,
                              seekable |-> TRUE, failAt |-> payload.failAt])
         IN  [ok |-> TRUE, present |-> TRUE, stream |-> pr.stream, size |-> pr.size]
    [] payload.kind \in {"buffer", "reader"} ->
         [ok |-> TRUE, present |-> TRUE,
          stream |-> [data |-> payload.data, pos |-> payload.pos, seekable |-> FALSE,
                      failAt |-> payload.failAt],
          size |-> -1]
    [] OTHER -> [ok |-> FALSE, present |-> FALSE, stream |-> NoStream, size |-> -1]

\* The progress decorator: whether a callback is attached, the total it
\* reports, its counter, and the invocations of the callback so far, each a
\* pair <<current, total>>.
NoProgress == [on |-> FALSE, total |-> 0, current |-> 0, calls |-> <<>>]

\* A counter that forgets what it counted before.
ProgressAddChunk(current, n) == n

\* p.current.Add(n).
ProgressAdd(current, n) == current + n

\* NewProgressReader(r, totalSize, onProgress): the decorator, and the stream
\* after the probe that is made of a seekable one when no size is given.
NewProgressReader(s, totalSize) ==
  LET probe == totalSize <= 0 /\ s.seekable
      pr == SeekEndStart(s)
  IN  [progress |-> [NoProgress EXCEPT !.on = TRUE,
                                       !.total = IF probe THEN pr.size ELSE totalSize],
       stream |-> IF probe THEN pr.stream ELSE s]

\* progress.Write(b) for the n = len(b) > 0 bytes the TeeReader hands it.
ProgressWrite(p, n) ==
  LET current == ProgressAdd(p.current, n)
  IN  IF ~p.on \/ n = 0 THEN p
      ELSE [p EXCEPT !.current = current,
                     !.calls = Append(@, <<current, IF p.total > 0 THEN p.total ELSE -1>>)]

\* opt.GetCompressor succeeds.
GetCompressorOK(opt) ==
  \/ opt.Compression \in {CompressionGzip, CompressionDeflate, CompressionBrotli}
  \/ opt.Compression = CompressionCustom /\ opt.CustomCompressor

\* A compressor that writes no header.
CompressorWriteRaw(alg, started, chunk) == chunk

\* What the streaming compressor writes for a chunk, its header first.
CompressorWrite(alg, started, chunk) ==
  (IF started THEN <<>> ELSE <<Magic(alg)>>) \o chunk

\* What the compressor writes when it is closed after n bytes.
CompressorClose(alg, started, n) ==
  (IF started THEN <<>> ELSE <<Magic(alg)>>) \o <<n>>

\* Decompression of a complete body: it fails on a foreign header and on a
\* body whose trailer is missing or does not fit.
Decompress(alg, body) ==
  IF /\ Len(body) >= 2
     /\ body[1] = Magic(alg)
     /\ body[Len(body)] = Len(body) - 2
  THEN [ok |-> TRUE, data |-> SubSeq(body, 2, Len(body) - 1)]
  ELSE [ok |-> FALSE, data |-> <<>>]

\* The pipe of io.Pipe: the bytes of the Write in progress, the error the
\* write side was closed with ("none" while it is open, "eof" for a plain
\* Close), and whether the read side was closed.
NoPipe == [buf |-> <<>>, werr |-> "none", rclosed |-> FALSE]

\* A close of the write side that replaces the error of an earlier close.
LastError(old, new) == new

\* The pipe keeps the error of the first close of its write side.
OnceError(old, new) == IF old = "none" THEN new ELSE old

\* pw.CloseWithError(err); pw.Close() is the same with "eof".
CloseWithError(pipe, err) == [pipe EXCEPT !.werr = OnceError(@, err)]

\* opt.InitialiseWriter(): created tells whether os.Create succeeds.
InitialiseWriter(opt, created) ==
  LET w == opt.ResponseWriter
  IN  CASE w.Type = WriteToFile ->
             IF w.FilePath = "" THEN [ok |-> FALSE, sink |-> "none", err |-> "missingpath"]
             ELSE IF ~created THEN [ok |-> FALSE, sink |-> "none", err |-> "create"]
             ELSE [ok |-> TRUE, sink |-> WriteToFile, err |-> "nil"]
        [] w.Type = WriteToBuffer ->
             IF w.FilePath # "" THEN [ok |-> FALSE, sink |-> "none", err |-> "unexpectedpath"]
             ELSE [ok |-> TRUE, sink |-> WriteToBuffer, err |-> "nil"]
        [] OTHER -> [ok |-> FALSE, sink |-> "none", err |-> "invalidtype"]

\* Whether the sink configuration of opt is one InitialiseWriter accepts.
ValidWriter(opt) ==
  \/ opt.ResponseWriter.Type = WriteToFile /\ opt.ResponseWriter.FilePath # ""
  \/ opt.ResponseWriter.Type = WriteToBuffer /\ opt.ResponseWriter.FilePath = ""

\* A decompressor that hands the body through as it is.
GetDecompressorRaw(opt, encoding, body) ==
  [made |-> TRUE, ok |-> TRUE, data |-> body, err |-> "nil"]

\* A choice of decompressor that knows the standard encodings only.
GetDecompressorNoHook(opt, encoding, body) ==
  IF encoding \in {"", CompressionGzip, CompressionDeflate, CompressionBrotli}
  THEN [made |-> TRUE, ok |-> TRUE, err |-> "nil",
        data |-> IF encoding = "" THEN body ELSE Decompress(encoding, body).data]
  ELSE [made |-> FALSE, ok |-> FALSE, data |-> <<>>, err |-> "unsupported"]

\* Reading a body to its end through the decompressor of alg, whose header
\* the body carries: the bytes up to the point where the stream breaks.
ReadThrough(alg, body) ==
  LET d == Decompress(alg, body)
  IN  IF d.ok THEN [made |-> TRUE, ok |-> TRUE, data |-> d.data, err |-> "nil"]
      ELSE [made |-> TRUE, ok |-> FALSE, data |-> SubSeq(body, 2, Len(body)), err |-> "nil"]

\* opt.GetDecompressor(body, encoding) and the reading of the whole body
\* through it: the bytes it yields, whether the reader could be made (made,
\* with the error err when not) and whether reading came to a clean end
\* (ok).  The gzip and zlib readers read their header when they are made,
\* the brotli reader and a custom one when they are first read.
GetDecompressor(opt, encoding, body) ==
  LET headed == body # <<>> /\ body[1] = Magic(encoding)
      broken == [made |-> TRUE, ok |-> FALSE, data |-> <<>>, err |-> "nil"]
  IN  CASE encoding = "" -> [made |-> TRUE, ok |-> TRUE, data |-> body, err |-> "nil"]
        [] encoding \in {CompressionGzip, CompressionDeflate} ->
             IF headed THEN ReadThrough(encoding, body)
             ELSE [made |-> FALSE, ok |-> FALSE, data |-> <<>>, err |-> "header"]
        [] encoding = CompressionBrotli ->
             IF headed THEN ReadThrough(encoding, body) ELSE broken
        [] OTHER ->
             IF opt.CustomDecompressor = "nil"
             THEN [made |-> FALSE, ok |-> FALSE, data |-> <<>>, err |-> "unsupported"]
             ELSE IF opt.CustomDecompressor = "err"
             THEN [made |-> FALSE, ok |-> FALSE, data |-> <<>>, err |-> "hook"]
             ELSE IF headed THEN ReadThrough(encoding, body) ELSE broken

\* io.Copy through a progress decorator: the decorator after data went
\* through it chunk by chunk.
RECURSIVE CopyThrough(_, _)
CopyThrough(p, data) ==
  IF data = <<>> THEN p
  ELSE LET n == Min(ChunkSize, Len(data))
       IN  CopyThrough(ProgressWrite(p, n), SubSeq(data, n + 1, Len(data)))

NoFile == [written |-> FALSE, data |-> <<>>]

\* processResponse for a response with the given Content-Encoding,
\* ContentLength and body: the record, the error, the file the sink wrote
\* and the download progress decorator.
ProcessBody(r, opt, status, encoding, contentLength, body, requestURL, created) ==
  LET d == GetDecompressor(opt, encoding, body)
      w == InitialiseWriter(opt, created)
      totalSize == IF encoding # "" THEN -1 ELSE contentLength
      p0 == IF opt.OnDownloadProgress
            THEN NewProgressReader(NoStream, totalSize).progress ELSE NoProgress
      p1 == CopyThrough(p0, d.data)
      file == IF w.sink = WriteToFile THEN [written |-> TRUE, data |-> d.data] ELSE NoFile
  IN  IF ~d.made
      THEN [resp |-> r, err |-> Error(d.err, 0), file |-> NoFile, down |-> NoProgress]
      ELSE IF ~w.ok
      THEN [resp |-> r, err |-> Error(w.err, 0), file |-> NoFile, down |-> NoProgress]
      ELSE IF ~d.ok
      THEN [resp |-> [r EXCEPT !.Error = Error("copy", 0)], err |-> Error("copy", 0),
            file |-> file, down |-> p1]
      ELSE [resp |-> PopulateResponse(
                       [r EXCEPT !.Body = IF w.sink = WriteToBuffer THEN d.data ELSE <<>>],
                       status, <<>>, requestURL),
            err |-> NoError, file |-> file, down |-> p1]

\* The request body of a transfer and what became of it.  task is the
\* position of the compressData goroutine: "none" when there is none,
\* "start", "copy" (about to read the source), "copywait" (inside a Write
\* to the pipe), "close" (copy over, the deferred calls to run),
\* "closewait" (inside the compressor's closing Write) and "exit".
NoTransfer ==
  [pc |-> "idle", method |-> "", payload |-> NilPayload, startPos |-> 0,
   hasBody |-> FALSE, compress |-> FALSE, size |-> -1,
   src |-> NoStream, taken |-> 0, up |-> NoProgress, upStage |-> "none",
   task |-> "none", started |-> FALSE, fed |-> <<>>, copyErr |-> FALSE,
   pipe |-> NoPipe, wire |-> <<>>, bodyEnd |-> "none", dispatched |-> FALSE,
   status |-> 0, loc |-> <<>>, hops |-> 0,
   encoding |-> "", shape |-> "sound", contentLength |-> -1,
   respBody |-> <<>>,
   served |-> <<>>, file |-> NoFile, down |-> NoProgress]

(***************************************************************************)
(* State.                                                                  *)
(*                                                                         *)
(* opts is the heap of Option objects: slot 0 is the reusable Client's     *)
(* global object, slot p the object caller p passes, slot NProcs + p the   *)
(* object options.New makes for p's call when the one passed was not made  *)
(* by New.  call[p] holds the arguments of the doRequest invocation p is   *)
(* in (they change when doRequest calls itself for the next hop) and what  *)
(* the call chain has done so far.  req[p] is the request p dispatched     *)
(* last, res[p] the pair doRequest is about to return.  hook is the slot   *)
(* of the Option captured by the CheckRedirect closure that is installed   *)
(* on the reusable Client's http.Client.  responses is the Client's list   *)
(* of kept responses and snap[p] the value p read of it before appending.  *)
(* norm is a URL on its way through normaliseURL: the string and the       *)
(* scheme override given, the last result and the one before it.           *)
(***************************************************************************)
VARIABLES opts, pc, call, req, res, hook, responses, snap, calls, xfer, norm

vars == <<opts, pc, call, req, res, hook, responses, snap, calls, xfer, norm>>

Slots == 0..(2 * NProcs)
TempSlot(p) == NProcs + p
Caller == CHOOSE p \in Procs : \A q \in Procs : p <= q

NoResult == [resp |-> ZeroResponse, err |-> NoError]

NoNorm ==
  [url |-> <<>>, scheme |-> <<>>, out |-> <<>>, prev |-> <<>>, ok |-> TRUE, steps |-> 0]

NoCall ==
  [method |-> "", url |-> <<>>, payload |-> NilPayload, o |-> 0, local |-> ZeroOption,
   fresh |-> FALSE, origMethod |-> "", origURL |-> <<>>, origKind |-> "nil",
   origBody |-> <<>>, dispatched |-> 0, redirOnly |-> TRUE, selfOnly |-> TRUE,
   lastStatus |-> 0, lastLoc |-> <<>>]

(***************************************************************************)
(* What callers and servers supply.                                        *)
(***************************************************************************)
Methods == {"GET", "POST", "PUT"}
URLPlain == <<"h", "/", "a">>
URLSpace == <<"h", "/", " ", "a">>
URLColon == <<"h", ":", "a">>
CallURLs == {URLPlain, URLSpace, URLColon}
Schemes == {<<>>}
Payloads ==
  {NilPayload, FilePayload,
   [kind |-> "bytes", data |-> <<1>>, name |-> ""],
   [kind |-> "string", data |-> <<1>>, name |-> ""],
   [kind |-> "buffer", data |-> <<1, 2>>, name |-> ""],
   [kind |-> "reader", data |-> <<1>>, name |-> ""],
   [kind |-> "bad", data |-> <<>>, name |-> ""]}
Statuses == {200, 301, 302, 303, 307, 308}
\* The Location of a server that sends its callers on to https.
UpgradeLocation == SchemeHTTPS \o <<"h", "/", "b">>
Locations == {<<>>, <<"/", "a">>, <<"/", "b">>, UpgradeLocation}
ServerBody == <<9>>

\* A configuration as a caller builds it: with options.New() and setters, or
\* as a struct literal.
MakeConfig(viaNew, follow, preserve, max, scheme) ==
  LET a == Redirects(IF viaNew THEN defaultOption ELSE ZeroOption, follow, preserve)
      b == SetMaxRedirects(a, max)
  IN  IF scheme = <<>> THEN b ELSE SetProtocolScheme(b, scheme)

Configs ==
  {MakeConfig(v, f, pr, m, s) :
     v \in BOOLEAN, f \in BOOLEAN, pr \in BOOLEAN, m \in 0..MaxMaxRedirects, s \in Schemes}

\* Configurations that follow redirects, and compress what they upload or
\* go by plain http whatever the URL says.
SpecialConfigs ==
  {SetCompression(MakeConfig(TRUE, TRUE, pr, MaxMaxRedirects, <<>>), CompressionGzip) :
     pr \in BOOLEAN}
  \cup
  {MakeConfig(TRUE, TRUE, pr, MaxMaxRedirects, <<"h", "t", "t", "p">>) : pr \in BOOLEAN}

InitCommon ==
  /\ pc = [p \in Procs |-> "idle"]
  /\ call = [p \in Procs |-> NoCall]
  /\ req = [p \in Procs |-> NoRequest]
  /\ res = [p \in Procs |-> NoResult]
  /\ hook = 0
  /\ responses = <<>>
  /\ snap = [p \in Procs |-> <<>>]
  /\ calls = 0
  /\ xfer = NoTransfer

Init ==
  /\ opts = [s \in Slots |-> ZeroOption]
  /\ InitCommon
  /\ norm = NoNorm

(***************************************************************************)
(* A caller of the package-level functions starts a call: with a           *)
(* configuration object it has just built, or with the one it used for     *)
(* its previous call.                                                      *)
(***************************************************************************)
BeginWith(p, configs, methods, urls, payloads) ==
  /\ pc[p] = "idle"
  /\ calls < MaxCalls
  /\ \E cfg \in configs \cup (IF calls > 0 THEN {opts[p]} ELSE {}) :
       /\ opts' = [opts EXCEPT ![p] = cfg]
       /\ \E method \in methods, url \in urls, payload \in payloads :
            call' = [call EXCEPT ![p] =
                       [NoCall EXCEPT !.method = method, !.url = url, !.payload = payload,
                                      !.o = p, !.local = cfg, !.origMethod = method,
                                      !.fresh = cfg \in configs]]
  /\ pc' = [pc EXCEPT ![p] = "ready"]
  /\ UNCHANGED <<req, res, hook, responses, snap, calls, xfer, norm>>

Begin(p) ==
  BeginWith(p, Configs \cup SpecialConfigs, Methods, CallURLs, Payloads)

\* A New that builds on the Client's global object, in place, what it
\* builds for an object it did not make.
NewSlotGlobal(p, from, o) == IF o.initialised THEN from ELSE 0

\* Every call working on the Client's global object, in place.
NewSlotShared(p, from, o) == 0

\* The slot of the object options.New returns to p for the object in slot
\* from: that object itself when New made it, else a new one.
NewSlot(p, from, o) == IF o.initialised THEN from ELSE TempSlot(p)

(***************************************************************************)
(* doRequest up to client.Do: the options, the trace header, the           *)
(* CheckRedirect closure, the URL, the payload reader and the request.     *)
(***************************************************************************)
Send(p) ==
  /\ pc[p] = "ready"
  /\ LET c == call[p]
         s == NewSlot(p, c.o, opts[c.o])
         o0 == New(opts[c.o])
         o1 == IF o0.UniqueIdentifierType # IdentifierNone
               THEN AddHeader(o0, "X-TraceID", "trace") ELSE o0
         n == normaliseURL(c.url, o1.ProtocolScheme)
         withBody == c.method \in BodyMethods
         o2 == IF withBody /\ c.payload.kind = "file" THEN SetFile(o1, c.payload) ELSE o1
         payload == IF withBody /\ HasFileHandle(o2)
                    THEN [FilePayload EXCEPT !.name = o2.filename]
                    ELSE c.payload
         r == IF withBody THEN CreatePayloadReader(payload, o2.file)
              ELSE [ok |-> TRUE, reader |-> NoReader, size |-> -1]
         pr == prepareRequest(c.method, n.url, r.reader, o2)
         first == c.dispatched = 0
     IN  /\ hook' = IF o1.client = "shared" THEN s ELSE hook
         /\ IF ~n.ok
            THEN /\ opts' = [opts EXCEPT ![s] = o1]
                 /\ res' = [res EXCEPT ![p] = [resp |-> ZeroResponse, err |-> Error("url", 0)]]
                 /\ call' = [call EXCEPT ![p].o = s]
                 /\ pc' = [pc EXCEPT ![p] = "ret"]
                 /\ UNCHANGED req
            ELSE IF ~r.ok
            THEN /\ opts' = [opts EXCEPT ![s] = o2]
                 /\ res' = [res EXCEPT ![p] = [resp |-> ResponseNew(n.url, c.method),
                                               err |-> Error("payload", 0)]]
                 /\ call' = [call EXCEPT ![p].o = s, ![p].payload = payload]
                 /\ pc' = [pc EXCEPT ![p] = "ret"]
                 /\ UNCHANGED req
            ELSE /\ opts' = [opts EXCEPT ![s] = pr.opt]
                 /\ res' = [res EXCEPT ![p] = [resp |-> ResponseNew(n.url, c.method),
                                               err |-> NoError]]
                 /\ req' = [req EXCEPT ![p] = pr.req]
                 /\ call' = [call EXCEPT ![p] =
                      [c EXCEPT !.o = s, !.url = n.url, !.payload = payload,
                                !.dispatched = Min(@ + 1, DispatchCap),
                                !.origURL = IF first THEN n.url ELSE @,
                                !.origKind = IF first THEN pr.req.kind ELSE @,
                                !.origBody = IF first THEN pr.req.body ELSE @]]
                 /\ pc' = [pc EXCEPT ![p] = "sent"]
  /\ UNCHANGED <<responses, snap, calls, xfer, norm>>

(***************************************************************************)
(* client.Do and the rest of doRequest.                                    *)
(***************************************************************************)
\* The Option after the transport is done with the request: it closes the
\* request body, which is the file itself unless a pipe stands in between.
AfterSend(o, r) ==
  IF r.hasBody /\ r.kind = "file" /\ ~r.wrapped /\ o.file = "open"
  THEN [o EXCEPT !.file = "closed"] ELSE o

\* The payload after the transport has read k bytes of the request body: a
\* bytes.Buffer loses what was read of it.
Drained(payload, r, k) ==
  IF r.hasBody /\ payload.kind = "buffer"
  THEN [payload EXCEPT !.data = SubSeq(@, k + 1, Len(@))]
  ELSE payload

ReadChoices(payload, r) ==
  IF r.hasBody /\ payload.kind = "buffer" THEN 0..Len(payload.data) ELSE {0}

\* A redirect handling that always falls back to GET.
RedirectMethodGet(method, preserve) == "GET"

\* The method of the next hop.
RedirectMethod(method, preserve) == IF preserve THEN method ELSE "GET"

\* The payload doRequest hands to itself for the next hop.
RedirectPayload(payload, preserve, hasFile) ==
  IF preserve /\ ~hasFile /\ payload.kind \in {"bytes", "buffer", "string"}
  THEN payload ELSE NilPayload

\* client.Do fails: doRequest records the error and returns it.
Fail(p) ==
  /\ pc[p] = "sent"
  /\ LET c == call[p]
         r == req[p]
         e == Error("transport", 0)
     IN  /\ \E k \in ReadChoices(c.payload, r) :
              call' = [call EXCEPT ![p] =
                         [c EXCEPT !.payload = Drained(c.payload, r, k),
                                   !.redirOnly = FALSE, !.selfOnly = FALSE,
                                   !.lastStatus = 0, !.lastLoc = <<>>]]
         /\ opts' = [opts EXCEPT ![c.o] = AfterSend(@, r)]
         /\ res' = [res EXCEPT ![p] = [resp |-> [@.resp EXCEPT !.Error = e], err |-> e]]
  /\ pc' = [pc EXCEPT ![p] = "ret"]
  /\ UNCHANGED <<req, hook, responses, snap, calls, xfer, norm>>

\* The slot of the Option whose counter the CheckRedirect closure of p's
\* http.Client advances: the closure doRequest installed last on that client.
HookSlot(p) == IF opts[call[p].o].client = "shared" THEN hook ELSE call[p].o

\* The server answers with status and Location loc.  The servers of the model
\* stop sending redirects that count once a counter has reached MaxCount.
Respond(p, status, loc) ==
  /\ pc[p] = "sent"
  /\ ~req[p].broken
  /\ HookCalled(req[p], status, loc) => opts[HookSlot(p)].currRedirect < MaxCount
  /\ \E k \in ReadChoices(call[p].payload, req[p]), opened \in BOOLEAN :
       LET c == call[p]
           r == req[p]
           requestURL == URLString(r.url)
           sent == [opts EXCEPT ![c.o] = AfterSend(@, r)]
           hooked == HookCalled(r, status, loc)
           h == HookSlot(p)
           cr == CheckRedirects(sent[h])
           heap == IF hooked THEN [sent EXCEPT ![h] = cr.opt] ELSE sent
           opt == heap[c.o]
           payload == Drained(c.payload, r, k)
           nextURL == ResolveReference(r.url, loc)
           seen == [c EXCEPT !.payload = payload,
                             !.redirOnly = @ /\ isRedirect(status) /\ loc # <<>>,
                             !.selfOnly = @ /\ isRedirect(status) /\ loc # <<>>
                                            /\ nextURL = requestURL,
                             !.lastStatus = status, !.lastLoc = loc]
           return(resp, err) ==
             /\ opts' = heap
             /\ call' = [call EXCEPT ![p] = seen]
             /\ res' = [res EXCEPT ![p] = [resp |-> resp, err |-> err]]
             /\ pc' = [pc EXCEPT ![p] = "ret"]
       IN  IF hooked /\ cr.hit
           THEN LET e == Error("maxredirects", sent[h].MaxRedirects)
                IN  return([res[p].resp EXCEPT !.Error = e], e)
           ELSE IF ~isRedirect(status)
           THEN return(processResponse(res[p].resp, status, loc, ServerBody, requestURL),
                       NoError)
           ELSE IF ~opt.FollowRedirects
           THEN return(PopulateResponse(res[p].resp, status, loc, requestURL), NoError)
           ELSE IF LocationMissing(loc)
           THEN return(res[p].resp, Error("nolocation", 0))
           ELSE LET preserve == opt.PreserveMethodOnRedirect
                    hasFile == HasFileHandle(opt)
                IN  /\ opts' = IF preserve /\ hasFile
                               THEN [heap EXCEPT ![c.o] = ReopenFile(@, opened)]
                               ELSE heap
                    /\ call' = [call EXCEPT ![p] =
                         [seen EXCEPT !.method = RedirectMethod(c.method, preserve),
                                      !.url = nextURL,
                                      !.lastStatus = 0, !.lastLoc = <<>>,
                                      !.payload = RedirectPayload(payload, preserve, hasFile)]]
                    /\ pc' = [pc EXCEPT ![p] = "ready"]
                    /\ UNCHANGED res
  /\ UNCHANGED <<req, hook, responses, snap, calls, xfer, norm>>

Receive(p) ==
  \/ Fail(p)
  \/ \E status \in Statuses, loc \in Locations :
       /\ isRedirect(status) \/ loc = <<>>
       /\ Respond(p, status, loc)

\* The package-level call returns to its caller; the object options.New made
\* for the call, if any, is garbage.
Return(p) ==
  /\ pc[p] = "ret"
  /\ pc' = [pc EXCEPT ![p] = "idle"]
  /\ opts' = [opts EXCEPT ![TempSlot(p)] = ZeroOption]
  /\ call' = [call EXCEPT ![p] = NoCall]
  /\ req' = [req EXCEPT ![p] = NoRequest]
  /\ res' = [res EXCEPT ![p] = NoResult]
  /\ calls' = calls + 1
  /\ UNCHANGED <<hook, responses, snap, xfer, norm>>

Next == Begin(Caller) \/ Send(Caller) \/ Receive(Caller) \/ Return(Caller)

Spec == Init /\ [][Next]_vars

\* The calls that follow redirects, with fairness: the goroutine that runs
\* a call and the transport keep running, while a caller need not start
\* another call.
FollowConfigs ==
  {MakeConfig(TRUE, TRUE, pr, m, <<>>) : pr \in BOOLEAN, m \in 0..MaxMaxRedirects}

FollowPayloads == {pl \in Payloads : pl.kind \in {"nil", "file", "buffer"}}

FollowBegin(p) == BeginWith(p, FollowConfigs, {"GET", "POST"}, {URLPlain}, FollowPayloads)

FairNext ==
  FollowBegin(Caller) \/ Send(Caller) \/ Receive(Caller) \/ Return(Caller)

FairSpec ==
  /\ Init
  /\ [][FairNext]_vars
  /\ WF_vars(Send(Caller) \/ Receive(Caller) \/ Return(Caller))

(***************************************************************************)
(* The reusable Client: NProcs goroutines make one call each through the   *)
(* same Client, every one with a configuration of its own.                 *)
(***************************************************************************)
GlobalValue == "g"
LocalValue == "l"
CallValue(p) == "c" \o ToString(p)

\* The options handed to client.New: they may set the header X and the
\* cookie c.
MakeGlobal(x, ck) ==
  LET a == IF x THEN AddHeader(defaultOption, "X", GlobalValue) ELSE defaultOption
  IN  IF ck THEN AddCookie(a, [Name |-> "c", Value |-> GlobalValue]) ELSE a

GlobalConfigs == {MakeGlobal(x, ck) : x \in BOOLEAN, ck \in BOOLEAN}

\* The options of p's call: a header K of its own and, when the call sets
\* what the base may set too, the header X, the cookie c and the redirect
\* settings.
MakeLocal(p, viaNew, both) ==
  LET a == AddHeader(MakeConfig(viaNew, both, both, MaxMaxRedirects, <<>>),
                     "K", CallValue(p))
  IN  IF both
      THEN AddCookie(AddHeader(a, "X", LocalValue), [Name |-> "c", Value |-> LocalValue])
      ELSE a

LocalConfigs(p) == {MakeLocal(p, v, b) : v \in BOOLEAN, b \in BOOLEAN}


ClientInit ==
  /\ \E g \in GlobalConfigs : opts = [s \in Slots |-> IF s = 0 THEN g ELSE ZeroOption]
  /\ InitCommon
  /\ norm = NoNorm

\* Client.doRequest up to the call of the package-level doRequest: the
\* call's options, a clone of the global ones merged into them, and the
\* Client's http.Client.
ClientCall(p) ==
  /\ pc[p] = "idle"
  /\ \E local \in LocalConfigs(p) :
       LET s == NewSlot(p, p, local)
           opt == SetClient(Merge(New(local), CloneGlobalOptions(opts[0])), "shared")
       IN  /\ opts' = [[opts EXCEPT ![p] = local] EXCEPT ![s] = opt]
           /\ call' = [call EXCEPT ![p] =
                         [NoCall EXCEPT !.method = "GET", !.url = URLPlain, !.o = s,
                                        !.local = local, !.origMethod = "GET",
                                        !.fresh = TRUE]]
  /\ pc' = [pc EXCEPT ![p] = "ready"]
  /\ UNCHANGED <<req, res, hook, responses, snap, calls, xfer, norm>>

ClientReceive(p) ==
  \/ Fail(p)
  \/ \E status \in {200, 302}, loc \in {<<>>, <<"/", "b">>} :
       /\ isRedirect(status) \/ loc = <<>>
       /\ Respond(p, status, loc)

\* c.responses = append(c.responses, response), without a lock: the list is
\* read, and the longer list is written back.
AppendRead(p) ==
  /\ pc[p] = "ret"
  /\ snap' = [snap EXCEPT ![p] = responses]
  /\ pc' = [pc EXCEPT ![p] = "append"]
  /\ UNCHANGED <<opts, call, req, res, hook, responses, calls, xfer, norm>>

AppendWrite(p) ==
  /\ pc[p] = "append"
  /\ responses' = Append(snap[p], p)
  /\ snap' = [snap EXCEPT ![p] = <<>>]
  /\ pc' = [pc EXCEPT ![p] = "done"]
  /\ call' = [call EXCEPT ![p] = NoCall]
  /\ req' = [req EXCEPT ![p] = NoRequest]
  /\ res' = [res EXCEPT ![p] = NoResult]
  /\ calls' = calls + 1
  /\ UNCHANGED <<opts, hook, xfer, norm>>

ClientNext ==
  \E p \in Procs :
    ClientCall(p) \/ Send(p) \/ ClientReceive(p) \/ AppendRead(p) \/ AppendWrite(p)

ClientSpec == ClientInit /\ [][ClientNext]_vars

(***************************************************************************)
(* One call seen at the level of its bytes: doRequest builds the request   *)
(* body (payload reader, progress decorator, compressing goroutine and     *)
(* pipe), the transport reads it while the goroutine writes it, the server *)
(* decompresses what it got and answers, and processResponse copies the    *)
(* answer into the sink.                                                   *)
(***************************************************************************)
\* The compression settings: the type, whether a compressor hook is set,
\* and the label given for a custom compression.
TransferCompressions ==
  {<<CompressionNone, FALSE, "">>, <<CompressionGzip, FALSE, "">>,
   <<CompressionDeflate, FALSE, "">>, <<CompressionBrotli, FALSE, "">>,
   <<CompressionCustom, TRUE, "">>, <<CompressionCustom, TRUE, "snappy">>,
   <<CompressionCustom, FALSE, "">>, <<"zstd", FALSE, "">>}

TransferWriters ==
  {[Type |-> WriteToBuffer, FilePath |-> ""], [Type |-> WriteToFile, FilePath |-> "p"],
   [Type |-> WriteToFile, FilePath |-> ""], [Type |-> WriteToBuffer, FilePath |-> "p"],
   [Type |-> "x", FilePath |-> ""]}

\* The upload progress settings: no callback, or a callback with the stage
\* at which it counts.
TransferTrackings ==
  {<<FALSE, TrackBeforeCompression>>, <<TRUE, TrackBeforeCompression>>,
   <<TRUE, TrackAfterCompression>>}

BufferWriter == [Type |-> WriteToBuffer, FilePath |-> ""]

\* A configuration made with options.New() and the setters; lengthSet
\* tells whether the caller has added a Content-Length header.
MakeTransferConfig(c, w, tr, down, decompressor, lengthSet) ==
  LET o == [defaultOption EXCEPT
              !.Compression = c[1], !.CustomCompressor = c[2],
              !.CustomCompressionType = c[3], !.CustomDecompressor = decompressor,
              !.ResponseWriter = w, !.OnUploadProgress = tr[1],
              !.ProgressTracking = tr[2], !.OnDownloadProgress = down]
  IN  IF lengthSet THEN AddHeader(o, "Content-Length", "2") ELSE o

\* The configurations of the calls: every sink and every progress setting
\* with every compression, and every decompressor hook and header setting
\* with every compression.
TransferConfigs ==
  {MakeTransferConfig(c, w, tr, down, "nil", FALSE) :
     c \in TransferCompressions, w \in TransferWriters, tr \in TransferTrackings,
     down \in BOOLEAN}
  \cup
  {MakeTransferConfig(c, BufferWriter, <<FALSE, TrackBeforeCompression>>, FALSE, d, l) :
     c \in TransferCompressions, d \in {"nil", "ok", "err"}, l \in BOOLEAN}

\* Configurations that follow redirects (with GET), with a limit of one
\* redirect or the default one.
TransferFollowConfigs ==
  {SetMaxRedirects(
     Redirects(MakeTransferConfig(<<c, FALSE, "">>, w, <<FALSE, TrackBeforeCompression>>,
                                  FALSE, "nil", FALSE), TRUE, FALSE), m) :
     c \in {CompressionNone, CompressionGzip}, w \in TransferWriters,
     m \in {1, DefaultMaxRedirects}}

TransferPayloads ==
  {[kind |-> "nil", data |-> <<>>, name |-> "", pos |-> 0, failAt |-> -1],
   [kind |-> "bytes", data |-> <<>>, name |-> "", pos |-> 0, failAt |-> -1],
   [kind |-> "bytes", data |-> <<1, 2>>, name |-> "", pos |-> 0, failAt |-> -1],
   [kind |-> "file", data |-> FileContent, name |-> FileName, pos |-> 0, failAt |-> -1],
   [kind |-> "file", data |-> FileContent, name |-> FileName, pos |-> 1, failAt |-> -1],
   [kind |-> "reader", data |-> <<1, 2>>, name |-> "", pos |-> 0, failAt |-> -1],
   [kind |-> "reader", data |-> <<1, 2>>, name |-> "", pos |-> 0, failAt |-> 1],
   [kind |-> "bad", data |-> <<>>, name |-> "", pos |-> 0, failAt |-> -1]}

\* The encodings a server may answer with; CustomEncoding is one that only
\* a custom decompressor knows.
CustomEncoding == "snappy"

ResponseEncodings ==
  {"", CompressionGzip, CompressionDeflate, CompressionBrotli, CustomEncoding}

\* What arrives as the body of an encoded answer: the encoded payload
\* ("sound"), the payload as it is though the header names an encoding
\* ("plain"), or the encoded payload cut short of its trailer ("cut").
ResponseShapes == {"sound", "plain", "cut"}

ShapedBody(e, shape, data) ==
  LET z == Compress(e, data)
  IN  CASE shape = "sound" -> z
        [] shape = "plain" -> data
        [] OTHER -> SubSeq(z, 1, Len(z) - 1)

\* How many answers of the 300 class one call meets.
MaxHops == 1

\* http.NewRequest accepts the method and the URL.
NewRequestOK(method, url) ==
  method \in {"GET", "HEAD", "POST", "PUT", "PATCH", "DELETE"} /\ ParseOK(url)

\* The upload progress decorator prepareRequest puts around the payload
\* reader (before compression) or around what the transport reads (after).
WrapUpload(opt, present, compress, stream, size) ==
  LET on == present /\ opt.OnUploadProgress
      before == on /\ opt.ProgressTracking = TrackBeforeCompression
      after == on /\ opt.ProgressTracking = TrackAfterCompression
      sized == IF stream.seekable THEN SeekEndStart(stream)
               ELSE [stream |-> stream, size |-> size]
      b == NewProgressReader(sized.stream, sized.size)
      a == NewProgressReader(IF compress THEN NoStream ELSE stream, 0)
  IN  IF before THEN [up |-> b.progress, stage |-> "src", stream |-> b.stream]
      ELSE IF after /\ compress THEN [up |-> a.progress, stage |-> "pipe", stream |-> stream]
      ELSE IF after THEN [up |-> a.progress, stage |-> "src", stream |-> a.stream]
      ELSE [up |-> NoProgress, stage |-> "none", stream |-> stream]

\* doRequest up to and including the call of client.Do, for the Option o
\* the call was given, on hop number hops of the call: from here on the
\* transport holds the request.
Dispatch(o, method, url, payload, hops) ==
  LET o0 == New(o)
      o1 == IF o0.UniqueIdentifierType # IdentifierNone
            THEN AddHeader(o0, "X-TraceID", "trace") ELSE o0
      n == normaliseURL(url, o1.ProtocolScheme)
      withBody == method \in BodyMethods
      o2 == IF withBody /\ payload.kind = "file" THEN SetFile(o1, payload) ELSE o1
      ps == IF withBody THEN PayloadStream(payload)
            ELSE [ok |-> TRUE, present |-> FALSE, stream |-> NoStream, size |-> -1]
      compress == ps.present /\ o2.Compression # CompressionNone
      wr == WrapUpload(o2, ps.present, compress, ps.stream, ps.size)
      pr == prepareRequest(method, n.url,
                           [present |-> ps.present, kind |-> payload.kind,
                            data |-> ps.stream.data, size |-> ps.size,
                            broken |-> FALSE], o2)
      begun == [NoTransfer EXCEPT !.method = method, !.payload = payload,
                                  !.startPos = payload.pos, !.hops = hops]
  IN  IF ~n.ok \/ ~ps.ok
      THEN /\ opts' = [opts EXCEPT ![Caller] = o2]
           /\ res' = [res EXCEPT ![Caller] =
                        [resp |-> ResponseNew(n.url, method),
                         err |-> Error("payload", 0)]]
           /\ xfer' = [begun EXCEPT !.pc = "done"]
           /\ UNCHANGED req
      ELSE /\ opts' = [opts EXCEPT ![Caller] = pr.opt]
           /\ req' = [req EXCEPT ![Caller] = pr.req]
           /\ res' = [res EXCEPT ![Caller] =
                        [resp |-> ResponseNew(n.url, method),
                         err |-> IF NewRequestOK(method, n.url) THEN NoError
                                 ELSE Error("newrequest", 0)]]
           /\ xfer' = [begun EXCEPT
                         !.pc = IF NewRequestOK(method, n.url) THEN "sending" ELSE "done",
                         !.dispatched = NewRequestOK(method, n.url),
                         !.hasBody = ps.present, !.compress = compress,
                         !.size = ps.size, !.src = wr.stream,
                         !.up = wr.up, !.upStage = wr.stage,
                         !.task = IF compress THEN "start" ELSE "none"]

\* The caller's call.
StartTransferWith(configs, payloads) ==
  /\ xfer.pc = "idle"
  /\ pc[Caller] = "idle"
  /\ calls = 0
  /\ \E cfg \in configs, method \in {"GET", "POST"}, payload \in payloads :
       /\ method = "GET" => payload.kind = "nil"
       /\ Dispatch(cfg, method, URLPlain, payload, 0)
  /\ UNCHANGED <<pc, call, hook, responses, snap, calls, norm>>

StartTransfer ==
  StartTransferWith(TransferConfigs \cup TransferFollowConfigs, TransferPayloads)

\* A Read of the payload reader: through the progress decorator when it
\* stands there.
SourceRead(x) ==
  LET r == StreamRead(x.src)
  IN  [bytes |-> r.bytes, err |-> r.err,
       x |-> [x EXCEPT !.src = r.stream, !.taken = @ + Len(r.bytes),
                       !.up = IF x.upStage = "src" THEN ProgressWrite(@, Len(r.bytes)) ELSE @]]

\* A Write to the pipe is over: its bytes were read, or the pipe is closed.
WriteReturned(pipe) == pipe.buf = <<>> \/ pipe.rclosed \/ pipe.werr # "none"

\* The Write failed.
WriteFailed(pipe) == pipe.rclosed \/ pipe.werr # "none"

\* One step of the compressData goroutine.
CompressStep ==
  /\ xfer.task \notin {"none", "exit"}
  /\ LET x == xfer
         opt == opts[Caller]
         alg == opt.Compression
         copyFailed(y) ==
           [y EXCEPT !.copyErr = TRUE, !.task = "close",
                     !.pipe = CloseWithError([y.pipe EXCEPT !.buf = <<>>], "err")]
     IN  CASE x.task = "start" ->
                xfer' = IF GetCompressorOK(opt)
                        THEN [x EXCEPT !.task = "copy"]
                        ELSE [x EXCEPT !.task = "exit",
                                       !.pipe = CloseWithError(CloseWithError(@, "err"), "eof")]
           [] x.task = "copy" ->
                LET r == SourceRead(x)
                IN  xfer' =
                      IF r.err = "err" THEN copyFailed(r.x)
                      ELSE IF r.err = "eof" THEN [r.x EXCEPT !.task = "close"]
                      ELSE IF WriteFailed(x.pipe) THEN copyFailed(r.x)
                      ELSE [r.x EXCEPT !.task = "copywait", !.started = TRUE,
                                       !.fed = @ \o r.bytes,
                                       !.pipe.buf = CompressorWrite(alg, x.started, r.bytes)]
           [] x.task = "copywait" ->
                /\ WriteReturned(x.pipe)
                /\ xfer' = IF x.pipe.buf = <<>> THEN [x EXCEPT !.task = "copy"]
                           ELSE copyFailed(x)
           [] x.task = "close" ->
                xfer' = IF WriteFailed(x.pipe)
                        THEN [x EXCEPT !.task = "exit", !.pipe = CloseWithError(@, "eof")]
                        ELSE [x EXCEPT !.task = "closewait", !.started = TRUE,
                                       !.pipe.buf = CompressorClose(alg, x.started, Len(x.fed))]
           [] x.task = "closewait" ->
                /\ WriteReturned(x.pipe)
                /\ xfer' = [x EXCEPT !.task = "exit",
                                     !.pipe = CloseWithError([@ EXCEPT !.buf = <<>>], "eof")]
  /\ UNCHANGED <<opts, pc, call, req, res, hook, responses, snap, calls, norm>>

\* What the server makes of the request body it received in full: it
\* decompresses by the Content-Encoding header and echoes; a GET is
\* answered with the server's own payload.
ServerPayload(method, header, wire) ==
  LET enc == HeaderGet(header, "Content-Encoding")
      d == IF enc = "" THEN [ok |-> TRUE, data |-> wire] ELSE Decompress(enc, wire)
  IN  IF method = "GET" THEN [ok |-> TRUE, data |-> ServerBody] ELSE d

\* A transport that leaves the request body open when the exchange fails.
TransportFailedOpen(x) == [x EXCEPT !.pc = "done"]

\* client.Do returns an error: the transport closes the request body and
\* doRequest returns the error.
TransportFailed(x) ==
  [x EXCEPT !.pc = "done", !.pipe.rclosed = TRUE]

\* The transport has sent the whole request and the server answers, with
\* the encoding e and a body of the given shape, telling the length of the
\* body or not.
Answered(x, e, shape, told) ==
  LET sp == ServerPayload(x.method, req[Caller].Header, x.wire)
      encoded == e # "" /\ sp.ok
      body == IF encoded THEN ShapedBody(e, shape, sp.data) ELSE sp.data
  IN  [x EXCEPT !.pc = "received", !.bodyEnd = "eof", !.pipe.rclosed = TRUE,
                !.status = IF sp.ok THEN 200 ELSE 400,
                !.encoding = IF sp.ok THEN e ELSE "",
                !.shape = IF encoded THEN shape ELSE "sound",
                !.served = sp.data, !.respBody = body,
                !.contentLength = IF told THEN Len(body) ELSE -1]

\* The server answers with a status of the 300 class and the Location loc,
\* and no body.
RedirectAnswered(x, status, loc) ==
  [x EXCEPT !.pc = "received", !.bodyEnd = "eof", !.pipe.rclosed = TRUE,
            !.status = status, !.loc = loc]

\* One step of client.Do: a Read of the request body, or the exchange
\* failing, or the answer; for an answer it would follow, client.Do calls
\* the CheckRedirect closure, and fails when that reports the limit.
TransportStep ==
  /\ xfer.pc = "sending"
  /\ LET x == xfer
         e == Error("transport", 0)
         failedWith(y, err) ==
           /\ xfer' = TransportFailed(y)
           /\ res' = [res EXCEPT ![Caller] = [resp |-> [@.resp EXCEPT !.Error = err],
                                              err |-> err]]
         failed(y) == failedWith(y, e) /\ UNCHANGED opts
         answered(y) ==
           \/ /\ \E enc \in ResponseEncodings, shape \in ResponseShapes, told \in BOOLEAN :
                    xfer' = Answered(y, enc, shape, told)
              /\ UNCHANGED <<res, opts>>
           \/ /\ y.hops < MaxHops
              /\ \E status \in {300, 301, 302, 303, 304, 307, 308},
                    loc \in {<<>>, <<"/", "b">>} :
                   LET hooked == HookCalled(req[Caller], status, loc)
                       cr == CheckRedirects(opts[Caller])
                   IN  /\ opts' = IF hooked THEN [opts EXCEPT ![Caller] = cr.opt] ELSE opts
                       /\ IF hooked /\ cr.hit
                          THEN failedWith(y, Error("maxredirects", opts[Caller].MaxRedirects))
                          ELSE /\ xfer' = RedirectAnswered(y, status, loc)
                               /\ UNCHANGED res
     IN  \/ failed(x)
         \/ /\ ~x.hasBody
            /\ answered(x)
         \/ /\ x.hasBody /\ ~x.compress
            /\ LET r == SourceRead(x)
               IN  IF r.err = "err" THEN failed([r.x EXCEPT !.bodyEnd = "err"])
                   ELSE IF r.err = "eof" THEN answered(r.x)
                   ELSE /\ xfer' = [r.x EXCEPT !.wire = @ \o r.bytes]
                        /\ UNCHANGED <<res, opts>>
         \/ /\ x.hasBody /\ x.compress
            /\ IF x.pipe.buf # <<>>
               THEN /\ xfer' = [x EXCEPT !.wire = @ \o x.pipe.buf, !.pipe.buf = <<>>,
                                         !.up = IF x.upStage = "pipe"
                                                THEN ProgressWrite(@, Len(x.pipe.buf)) ELSE @]
                    /\ UNCHANGED <<res, opts>>
               ELSE IF x.pipe.werr = "eof" THEN answered(x)
               ELSE /\ x.pipe.werr = "err"
                    /\ failed([x EXCEPT !.bodyEnd = "err"])
  /\ UNCHANGED <<pc, call, req, hook, responses, snap, calls, norm>>

\* The rest of doRequest: a redirect is returned as it is, or refused for
\* want of a Location, or followed by doRequest calling itself; any other
\* answer goes through processResponse, and doRequest returns.  The
\* configurations of these calls do not preserve the method: the next hop
\* is a GET without payload.
FinishTransfer ==
  /\ xfer.pc = "received"
  /\ LET x == xfer
         opt == opts[Caller]
         requestURL == URLString(req[Caller].url)
         return(resp, err) ==
           /\ res' = [res EXCEPT ![Caller] = [resp |-> resp, err |-> err]]
           /\ xfer' = [x EXCEPT !.pc = "done"]
           /\ UNCHANGED <<opts, req>>
     IN  IF ~isRedirect(x.status)
         THEN \E created \in BOOLEAN :
                LET out == ProcessBody(res[Caller].resp, opt, x.status, x.encoding,
                                       x.contentLength, x.respBody, requestURL, created)
                IN  /\ res' = [res EXCEPT ![Caller] = [resp |-> out.resp, err |-> out.err]]
                    /\ xfer' = [x EXCEPT !.pc = "done", !.file = out.file,
                                         !.down = out.down]
                    /\ UNCHANGED <<opts, req>>
         ELSE IF ~opt.FollowRedirects
         THEN return(PopulateResponse(res[Caller].resp, x.status, x.loc, requestURL), NoError)
         ELSE IF LocationMissing(x.loc)
         THEN return(res[Caller].resp, Error("nolocation", 0))
         ELSE LET preserve == opt.PreserveMethodOnRedirect
                  keep == preserve /\ ~HasFileHandle(opt)
                          /\ x.payload.kind \in {"bytes", "buffer", "string"}
              IN  Dispatch(opt, RedirectMethod(x.method, preserve),
                           ResolveReference(req[Caller].url, x.loc),
                           IF keep THEN x.payload
                           ELSE [kind |-> "nil", data |-> <<>>, name |-> "", pos |-> 0,
                                 failAt |-> -1],
                           x.hops + 1)
  /\ UNCHANGED <<pc, call, hook, responses, snap, calls, norm>>

TransferNext == StartTransfer \/ CompressStep \/ TransportStep \/ FinishTransfer

TransferSpec == Init /\ [][TransferNext]_vars

\* The calls that compress, with fairness: the goroutine and the transport
\* keep running.
CompressingConfigs ==
  {MakeTransferConfig(c, BufferWriter, <<FALSE, TrackBeforeCompression>>, FALSE,
                      "nil", FALSE) :
     c \in TransferCompressions \ {<<CompressionNone, FALSE, "">>}}

CompressingPayloads == {pl \in TransferPayloads : pl.kind \in {"bytes", "file", "reader"}}

FairTransferNext ==
  \/ StartTransferWith(CompressingConfigs, CompressingPayloads)
  \/ CompressStep
  \/ TransportStep
  \/ FinishTransfer

FairTransferSpec ==
  /\ Init
  /\ [][FairTransferNext]_vars
  /\ WF_vars(CompressStep)
  /\ WF_vars(TransportStep)
  /\ WF_vars(FinishTransfer)

(***************************************************************************)
(* normaliseURL on its own: doRequest normalises the URL of the call, and  *)
(* for every hop it follows it normalises the URL it resolved, which is    *)
(* the result of an earlier normalisation when the server redirects to the *)
(* URL it was asked for.                                                   *)
(***************************************************************************)
MaxNormalise == 2

\* The URLs handed to normaliseURL: bare hosts and paths, with blanks
\* around them, with a scheme, with a colon but no scheme, with a blank in
\* the host, and with a host that is itself named http or https.
NormURLs ==
  LET NormHosts == {<<"a">>, <<"a", "/", "b">>}
  IN
  NormHosts
  \cup {<<" ">> \o h \o <<" ">> : h \in NormHosts}
  \cup {s \o h : s \in {SchemeHTTP, SchemeHTTPS, <<"f", "t", "p">> \o SchemeSep},
                  h \in NormHosts}
  \cup {<<"a", ":", "b">>, SchemeHTTP \o <<"a", " ", "b">>}
  \cup {s1 \o s2 \o <<"a">> : s1 \in {SchemeHTTP, SchemeHTTPS},
                              s2 \in {SchemeHTTP, SchemeHTTPS}}
  \cup {SchemeHTTP \o SchemeHTTP \o SchemeHTTP \o <<"a">>}

\* The scheme overrides: none, and a scheme given with and without "://".
NormSchemes ==
  {<<>>}
  \cup {s : s \in {<<"h", "t", "t", "p">>, <<"h", "t", "t", "p", "s">>, <<"f", "t", "p">>}}
  \cup {s \o SchemeSep :
          s \in {<<"h", "t", "t", "p">>, <<"h", "t", "t", "p", "s">>, <<"f", "t", "p">>}}

NormInit ==
  /\ opts = [s \in Slots |-> ZeroOption]
  /\ InitCommon
  /\ \E u \in NormURLs, s \in NormSchemes :
       norm = [NoNorm EXCEPT !.url = u, !.scheme = s]

\* normaliseURL is applied: to the URL given, and then to its own result.
Normalise ==
  /\ norm.steps < MaxNormalise
  /\ norm.ok
  /\ LET r == normaliseURL(IF norm.steps = 0 THEN norm.url ELSE norm.out, norm.scheme)
     IN  norm' = [norm EXCEPT !.out = r.url, !.prev = norm.out, !.ok = r.ok,
                              !.steps = @ + 1]
  /\ UNCHANGED <<opts, pc, call, req, res, hook, responses, snap, calls, xfer>>

NormSpec == NormInit /\ [][Normalise]_vars

(***************************************************************************)
(* Properties.  cur is the call the package-level caller is in, its Option *)
(* object being curOpt.                                                    *)
(***************************************************************************)
cur == call[Caller]
curOpt == opts[call[Caller].o]
curReq == req[Caller]
curRes == res[Caller]

\* The call runs on a configuration no earlier call has used, follows
\* redirects and has a limit of at least one.
FreshFollowing ==
  /\ cur.fresh
  /\ cur.dispatched >= 1
  /\ curOpt.FollowRedirects
  /\ curOpt.MaxRedirects >= 1

C1_Started == pc[Caller] = "sent" /\ FreshFollowing

C1_Ended ==
  \/ ~cur.selfOnly
  \/ /\ pc[Caller] = "ret"
     /\ curRes.err = Error("maxredirects", curOpt.MaxRedirects)
     /\ curRes.resp.Body = <<>>

\* C1: with redirect-following enabled and max-redirects = N >= 1 on a
\* freshly constructed configuration, a call against an endpoint that
\* redirects to itself every time ends with an error that names N, and the
\* returned record has no body.
C1_SelfRedirectEndsWithLimitError == C1_Started ~> C1_Ended

\* C2: with max-redirects = N on a fresh configuration, redirect-following
\* enabled and every response a redirect, the call has dispatched exactly N
\* requests when it returns.
C2_ExactlyMaxAttempts ==
  (pc[Caller] = "ret" /\ FreshFollowing /\ cur.redirOnly)
    => cur.dispatched = curOpt.MaxRedirects

\* C3: the current redirect count of a configuration object never exceeds
\* its max-redirect count, at any point of any sequence of calls.
C3_CountWithinMax == \A s \in Slots : opts[s].currRedirect <= opts[s].MaxRedirects

\* C4: every call with redirect-following enabled returns, whatever the
\* responses, the max-redirect count and the earlier use of the object.
C4_FollowingCallReturns ==
  (pc[Caller] = "sent" /\ curOpt.FollowRedirects) ~> (pc[Caller] = "ret")

\* C5: with redirect-following disabled, a call whose response is a redirect
\* with a Location returns that response (its status, its Location) without
\* an error, after one request, whatever the configuration.
C5_NoFollowReturnsRedirect ==
  ( /\ pc[Caller] = "ret"
    /\ cur.dispatched >= 1
    /\ ~curOpt.FollowRedirects
    /\ isRedirect(cur.lastStatus)
    /\ cur.lastLoc # <<>> )
    => /\ curRes.err = NoError
       /\ curRes.resp.StatusCode = cur.lastStatus
       /\ curRes.resp.HdrLocation = cur.lastLoc
       /\ cur.dispatched = 1

\* C6: a request dispatched after a followed redirect of a POST, PUT or PATCH
\* call uses the original method when preserve-method is enabled and GET
\* when it is disabled.
C6_RedirectMethod ==
  (cur.dispatched >= 2 /\ cur.origMethod \in BodyMethods)
    => curReq.method = IF curOpt.PreserveMethodOnRedirect THEN cur.origMethod ELSE "GET"

C6_Witness ==
  /\ pc[Caller] = "sent"
  /\ cur.dispatched >= 2
  /\ cur.origMethod = "POST"
  /\ curOpt.PreserveMethodOnRedirect
  /\ curReq.method = "POST"

\* C7: with preserve-method enabled, a request dispatched after a followed
\* redirect carries the payload bytes of the original request when the
\* payload is a file (that can be reopened), a byte buffer or text.
C7_ReplayCarriesSamePayload ==
  ( /\ cur.dispatched >= 2
    /\ curOpt.PreserveMethodOnRedirect
    /\ cur.origMethod \in BodyMethods
    /\ cur.origKind \in {"file", "buffer", "string"}
    /\ cur.origKind = "file" => curOpt.file # "nil" )
    => curReq.hasBody /\ curReq.body = cur.origBody

\* C8: in the record a call returns, the redirected flag is true if and only
\* if the URL of the final request differs from the URL the caller asked for.
C8_RedirectedIffURLDiffers ==
  (pc[Caller] = "ret" /\ cur.dispatched >= 1 /\ curRes.err = NoError)
    => (curRes.resp.Redirected <=> URLString(curReq.url) # URLString(cur.origURL))

\* C9: through a reusable Client, where the call's configuration and the
\* Client's base configuration both give a value (a header key, a cookie
\* name, the follow and preserve flags, the max-redirect count), the request
\* is executed with the call's value.
C9_LocalValuesWin ==
  \A p \in Procs :
    pc[p] = "sent" =>
      LET l == call[p].local
          g == opts[0]
          e == opts[call[p].o]
          r == req[p]
      IN  /\ \A k \in DOMAIN l.Header \cap DOMAIN g.Header :
                k \in DOMAIN r.Header /\ r.Header[k] = l.Header[k]
          /\ \A i \in 1..Len(l.Cookies) :
                (\E j \in 1..Len(g.Cookies) : g.Cookies[j].Name = l.Cookies[i].Name)
                  => \E m \in 1..Len(r.Cookies) : r.Cookies[m] = l.Cookies[i]
          /\ e.FollowRedirects = l.FollowRedirects
          /\ e.PreserveMethodOnRedirect = l.PreserveMethodOnRedirect
          /\ e.MaxRedirects = l.MaxRedirects

\* C10: when the calls run concurrently through one Client, each with a
\* configuration of its own that adds a header of its own, the request of
\* each call carries its own header and no header value of another call.
C10_HeadersIsolated ==
  \A p \in Procs :
    pc[p] = "sent" =>
      /\ "K" \in DOMAIN req[p].Header
      /\ req[p].Header["K"] = <<CallValue(p)>>
      /\ \A k \in DOMAIN req[p].Header : \A q \in Procs \ {p} :
            \A i \in 1..Len(req[p].Header[k]) : req[p].Header[k][i] # CallValue(q)

C10_Witness ==
  \A p \in Procs :
    /\ pc[p] = "sent"
    /\ "K" \in DOMAIN req[p].Header
    /\ req[p].Header["K"] = <<CallValue(p)>>

\* C11: every call completed through a reusable Client appends exactly one
\* record to the Client's response list and none is lost or overwritten, also
\* when the calls run concurrently: once the NProcs calls are done the list
\* holds NProcs records.
C11_EveryCallRecorded ==
  (\A p \in Procs : pc[p] = "done") => Len(responses) = NProcs

(***************************************************************************)
(* Properties of the body transfer.  xopt is the Option of the call.       *)
(***************************************************************************)
xopt == opts[Caller]
xres == res[Caller]

\* C12: an invalid response-sink configuration (file mode without a path,
\* buffer mode with a path, an unknown sink type) makes the call fail
\* before any request is dispatched to the transport.
C12_InvalidSinkNotDispatched ==
  (xfer.pc # "idle" /\ ~ValidWriter(xopt)) => ~xfer.dispatched

\* C13: when compression is selected and the compressor cannot be made, the
\* call fails before the request is handed to the transport.
C13_NoCompressorNotDispatched ==
  (xfer.compress /\ ~GetCompressorOK(xopt)) => ~xfer.dispatched

\* C14: when copying the source into the compressor fails, the write side
\* of the pipe is closed with that error, and the reading side never sees a
\* clean end of the stream.
C14_CopyErrorReachesReader ==
  xfer.copyErr => (xfer.pipe.werr = "err" /\ xfer.bodyEnd # "eof")

C14_Witness ==
  /\ xfer.copyErr
  /\ xfer.payload.failAt = 1
  /\ xfer.task = "exit"
  /\ xfer.bodyEnd = "err"

ReportsAll(p, total) == p.calls # <<>> /\ p.calls[Len(p.calls)] = <<total, total>>

\* C16: for a successful upload whose size is known, and for a successful
\* download whose content length is known, the progress callback is invoked
\* at least once and its last invocation reports current = total.  (Sizes
\* count as unknown where the decorator stands behind the compressor or the
\* decompressor.)
C16_ProgressComplete ==
  (xfer.pc = "done" /\ xres.err = NoError /\ xfer.status = 200) =>
     /\ ( /\ xopt.OnUploadProgress /\ xfer.hasBody /\ xfer.size >= 0
          /\ xfer.upStage = "src" )
          => ReportsAll(xfer.up, xfer.size)
     /\ ( /\ xopt.OnDownloadProgress /\ xfer.contentLength >= 0
          /\ xfer.encoding = "" )
          => ReportsAll(xfer.down, xfer.contentLength)

\* The invocations of p's callback carry non-decreasing counts, the last
\* of them the number n of bytes that went through the stream so far.
CountsExact(p, n) ==
  /\ \A i \in 1..(Len(p.calls) - 1) : p.calls[i][1] <= p.calls[i + 1][1]
  /\ p.calls # <<>> => p.calls[Len(p.calls)][1] = n
  /\ p.calls = <<>> => (~p.on \/ n = 0)

\* C17: for one decorated stream, successive invocations of the callback
\* carry non-decreasing cumulative counts, each the number of bytes
\* transferred through the stream so far.
C17_ProgressMonotonicExact ==
  /\ xfer.upStage = "src" => CountsExact(xfer.up, xfer.taken)
  /\ xfer.upStage = "pipe" => CountsExact(xfer.up, Len(xfer.wire))
  /\ (xfer.pc = "done" /\ xres.err = NoError /\ xopt.OnDownloadProgress)
       => CountsExact(xfer.down, Len(xfer.served))

C17_Witness ==
  /\ xfer.upStage = "src"
  /\ Len(xfer.up.calls) >= 2
  /\ xfer.down.calls # <<>>

\* C18: probing the size of a seekable payload leaves its read position
\* where it was, whatever that position: before the first byte is read the
\* stream stands where the caller left it.
C18_ProbeRestoresPosition ==
  (xfer.pc = "sending" /\ xfer.hasBody /\ xfer.src.seekable /\ xfer.taken = 0)
    => xfer.src.pos = xfer.startPos

\* The answer to the last request is not a redirect.
FinalAnswer == xfer.status \notin {301, 302, 303, 307, 308}

\* The answer to the last request is the server's echo, none of the 300
\* class.
EchoAnswer == xfer.status \notin 300..399

\* The call posts with one of the three standard compressions a payload
\* handed over at its start, and the server answers with its echo.
StandardCompressed ==
  /\ xfer.method = "POST"
  /\ EchoAnswer
  /\ xfer.compress
  /\ xopt.Compression \in {CompressionGzip, CompressionDeflate, CompressionBrotli}
  /\ xfer.startPos = 0
  /\ xfer.bodyEnd = "eof"

\* C19: posting a payload with gzip, deflate or brotli compression to a
\* server that decompresses and echoes yields a response body equal to the
\* payload: what the transport read from the pipe is the whole output of
\* the compressor in order.
C19_CompressionTransparent ==
  /\ (xfer.pc \in {"received", "done"} /\ StandardCompressed)
       => /\ xfer.wire = Compress(xopt.Compression, xfer.payload.data)
          /\ xfer.status = 200
          /\ xfer.served = xfer.payload.data
  /\ ( /\ xfer.pc = "done" /\ StandardCompressed
       /\ xopt.ResponseWriter = BufferWriter
       /\ xfer.shape = "sound"
       /\ xfer.encoding = CustomEncoding => xopt.CustomDecompressor = "ok" )
       => xres.err = NoError /\ xres.resp.Body = xfer.payload.data

C19_Witness ==
  /\ xfer.pc = "done"
  /\ StandardCompressed
  /\ xopt.Compression = CompressionBrotli
  /\ xfer.payload.data = <<1, 2>>
  /\ xres.resp.Body = <<1, 2>>

\* C20: a download to a file sink produces a file whose length is the
\* length of the server's payload, for compressed and for uncompressed
\* responses.
C20_FileSinkExact ==
  ( /\ xfer.pc = "done" /\ xres.err = NoError
    /\ EchoAnswer
    /\ xopt.ResponseWriter.Type = WriteToFile )
    => xfer.file.written /\ Len(xfer.file.data) = Len(xfer.served)

C20_Witness ==
  /\ xfer.pc = "done"
  /\ xres.err = NoError
  /\ xfer.encoding = CompressionGzip
  /\ xfer.file.written
  /\ xfer.file.data = ServerBody

\* The kinds of error that come from the transport and from the streams of
\* a transfer: client.Do failing (which is also how a failure of the
\* compression stream shows), the decompression stream failing when its
\* header is read, and the copy into the sink failing.
TransferIOErrors == {"transport", "header", "copy"}

\* C21: whenever the transport call or an I/O operation of the transfer
\* (compression stream, decompression stream, sink write) fails, the call
\* returns that error and the same error is in the Error field of the
\* returned record.
C21_ErrorInRecord ==
  (xfer.pc = "done" /\ xres.err.kind \in TransferIOErrors)
    => xres.resp.Error = xres.err

\* C22: when compression is selected for a request with a payload, the
\* request carries no Content-Length header, is marked chunked, and its
\* Content-Encoding is the name of the algorithm, or for a custom
\* compression the label the caller gave, or a generic binary label when
\* none was given.
C22_CompressionHeaders ==
  (xfer.dispatched /\ xfer.compress) =>
     LET h == req[Caller].Header
         label == IF xopt.Compression # CompressionCustom THEN xopt.Compression
                  ELSE IF xopt.CustomCompressionType # "" THEN xopt.CustomCompressionType
                  ELSE "application/octet-stream"
     IN  /\ "Content-Length" \notin DOMAIN h
         /\ "Transfer-Encoding" \in DOMAIN h /\ h["Transfer-Encoding"] = <<"chunked">>
         /\ "Content-Encoding" \in DOMAIN h /\ h["Content-Encoding"] = <<label>>

C22_Witness ==
  /\ xfer.dispatched
  /\ xfer.compress
  /\ xopt.Compression = CompressionCustom
  /\ xopt.CustomCompressionType = "snappy"
  /\ HeaderGet(req[Caller].Header, "Content-Encoding") = "snappy"
  /\ xfer.wire # <<>>

\* The call is over, its sink is the buffer, and the answer came whole.
AnswerKept ==
  /\ xfer.pc = "done"
  /\ EchoAnswer
  /\ xfer.bodyEnd = "eof" \/ (~xfer.hasBody /\ xfer.status # 0)
  /\ xopt.ResponseWriter = BufferWriter
  /\ xfer.shape = "sound"

StandardEncodings == {CompressionGzip, CompressionDeflate, CompressionBrotli}

\* C23: the decompressor of a response is chosen by its Content-Encoding:
\* none for an empty encoding (the body is kept as it came), the standard
\* one for gzip, deflate and br, and for any other encoding the caller's
\* custom decompressor when one is set; the call fails with the
\* unsupported-encoding error exactly when the encoding is another one and
\* no custom decompressor is set.
C23_DecompressorChoice ==
  /\ (AnswerKept /\ xfer.encoding = "")
       => xres.err = NoError /\ xres.resp.Body = xfer.respBody
  /\ (AnswerKept /\ xfer.encoding \in StandardEncodings)
       => xres.err = NoError /\ xres.resp.Body = xfer.served
  /\ (AnswerKept /\ xfer.encoding \notin StandardEncodings \cup {""})
       => CASE xopt.CustomDecompressor = "ok" ->
                 xres.err = NoError /\ xres.resp.Body = xfer.served
            [] xopt.CustomDecompressor = "err" -> xres.err = Error("hook", 0)
            [] OTHER -> xres.err = Error("unsupported", 0)
  /\ (xfer.pc = "done" /\ xres.err = Error("unsupported", 0))
       => /\ xfer.encoding \notin StandardEncodings \cup {""}
          /\ xopt.CustomDecompressor = "nil"

C23_Witness ==
  /\ AnswerKept
  /\ xfer.encoding = CustomEncoding
  /\ xopt.CustomDecompressor = "ok"
  /\ xres.err = NoError
  /\ xres.resp.Body = <<1, 2>>

(***************************************************************************)
(* Properties of normaliseURL.                                             *)
(***************************************************************************)
HasSuffix(s, x) == Len(x) <= Len(s) /\ SubSeq(s, Len(s) - Len(x) + 1, Len(s)) = x

\* The override with "://" after it.
FullScheme(s) == IF HasSuffix(s, SchemeSep) THEN s ELSE s \o SchemeSep

\* u bears the scheme that normalising with the override s gives a URL.
BearsScheme(u, s) ==
  IF s = <<>> THEN HasPrefix(u, SchemeHTTP) \/ HasPrefix(u, SchemeHTTPS)
  ELSE HasPrefix(u, FullScheme(s))

\* C24: normalising is idempotent: for a URL that bears the right scheme
\* already and any fixed override, normalising it is accepted and gives
\* the URL back unchanged, and normalising the result gives the result.
C24_NormaliseIdempotent ==
  (BearsScheme(norm.url, norm.scheme) /\ norm.ok) =>
     /\ norm.steps = 1 => norm.out = norm.url
     /\ norm.steps >= 2 => norm.out = norm.prev

NoScheme(w) == ~Contains(w, Colon)

\* C26: normalising a URL without a scheme puts https:// before it when no
\* override is configured, and the override (with "://" after it when it
\* lacks that) when one is; an override takes the place of an http:// or
\* https:// the URL begins with.
C26_SchemeDefaulting ==
  (norm.steps = 1 /\ norm.ok) =>
     LET w == TrimSpace(norm.url)
         s == norm.scheme
         rest == IF HasPrefix(w, SchemeHTTPS) THEN SubSeq(w, Len(SchemeHTTPS) + 1, Len(w))
                 ELSE SubSeq(w, Len(SchemeHTTP) + 1, Len(w))
     IN  /\ (NoScheme(w) /\ s = <<>>) => norm.out = SchemeHTTPS \o w
         /\ (NoScheme(w) /\ s # <<>>) => norm.out = FullScheme(s) \o w
         /\ ( /\ s # <<>>
              /\ HasPrefix(w, SchemeHTTP) \/ HasPrefix(w, SchemeHTTPS)
              /\ NoScheme(rest) )
              => norm.out = FullScheme(s) \o rest

C26_Witness ==
  /\ norm.steps = 1
  /\ norm.ok
  /\ norm.url = SchemeHTTPS \o <<"a">>
  /\ norm.scheme = <<"f", "t", "p">>
  /\ norm.out = <<"f", "t", "p">> \o SchemeSep \o <<"a">>

(***************************************************************************)
(* Properties of the redirect counter across calls.                        *)
(***************************************************************************)
\* The first request of the call has been dispatched and not answered.
AtFirstDispatch == pc[Caller] = "sent" /\ cur.dispatched = 1

\* The Option the call works on was made for it: by the caller just before
\* the call, or by options.New within it.
NewlyConstructed == cur.fresh \/ cur.o = TempSlot(Caller)

C28_OwnCounterOnly ==
  [][\A p \in Procs :
       (pc[p] = "sent" /\ pc'[p] # "sent") =>
          /\ \A s \in Slots \ {call[p].o} :
                opts'[s].currRedirect = opts[s].currRedirect
          /\ (res'[p].err.kind = "maxredirects") =>
                opts'[call[p].o].currRedirect = opts[call[p].o].MaxRedirects]_vars

(***************************************************************************)
(* Properties of the payload on a followed redirect.                       *)
(***************************************************************************)
\* The call began by sending a file, and the Option holds no file now: the
\* reopening for a redirect has failed.
ReopenFailed ==
  /\ cur.origKind = "file"
  /\ cur.origMethod \in BodyMethods
  /\ cur.dispatched >= 1
  /\ curOpt.file = "nil"

\* C29: when the file of the payload cannot be reopened for a redirect, no
\* request is dispatched for the hop, and the call returns an error.
C29_ReopenFailureAborts ==
  ReopenFailed =>
     /\ pc[Caller] # "sent"
     /\ pc[Caller] = "ret" => curRes.err # NoError

\* C30: with the method preserved and a payload that is a reader of some
\* other kind than file, byte slice, buffer or string, the request of a
\* followed hop carries the bytes of the payload: it never goes out with
\* an empty body when the payload was not empty.
C30_StreamPayloadReplayed ==
  ( /\ pc[Caller] = "sent"
    /\ cur.dispatched >= 2
    /\ curOpt.PreserveMethodOnRedirect
    /\ cur.origMethod \in BodyMethods
    /\ cur.origKind = "reader"
    /\ cur.origBody # <<>> )
    => /\ curReq.hasBody
       /\ curReq.body = cur.origBody

(***************************************************************************)
(* Properties of what one call leaves in the Option for the next request.  *)
(***************************************************************************)
\* C31: a request that is dispatched without a body carries neither a
\* Content-Encoding nor a Transfer-Encoding header: what a compressed
\* upload put into the headers of the configuration does not reach the GET
\* that follows a redirect, nor a later call without a body.
C31_NoStaleCompressionHeaders ==
  (pc[Caller] = "sent" /\ ~curReq.hasBody) =>
     /\ "Content-Encoding" \notin DOMAIN curReq.Header
     /\ "Transfer-Encoding" \notin DOMAIN curReq.Header

\* C32: the body of the first request of a call is made from the payload
\* the call was given: it is of that payload's type, present exactly when
\* the payload is not nil, and (when it is not compressed) holds that
\* payload's bytes, whatever earlier calls sent with the same Option.
C32_FirstHopBodyFromArgument ==
  [][( /\ pc[Caller] = "ready"
       /\ cur.dispatched = 0
       /\ cur.method \in BodyMethods
       /\ pc'[Caller] = "sent" )
       => /\ req'[Caller].hasBody = (cur.payload.kind # "nil")
          /\ req'[Caller].kind = cur.payload.kind
          /\ ~req'[Caller].wrapped => req'[Caller].body = cur.payload.data]_vars

(***************************************************************************)
(* Properties of redirects met by a transfer.                              *)
(***************************************************************************)
\* C33: as long as the call has received no answer that is not a redirect,
\* the file of the sink is neither created nor truncated: a call that ends
\* with an error of the transport, with a redirect it does not follow, with
\* a redirect without Location or at the limit of redirects leaves the path
\* of the sink untouched.
C33_SinkUntouchedBeforeFinalAnswer ==
  (xfer.status = 0 \/ ~FinalAnswer) => xfer.file = NoFile

C33_Witness ==
  /\ xfer.pc = "done"
  /\ xfer.status = 302
  /\ ~xopt.FollowRedirects
  /\ xopt.ResponseWriter = [Type |-> WriteToFile, FilePath |-> "p"]
  /\ xres.err = NoError
  /\ xres.resp.StatusCode = 302
  /\ xfer.file = NoFile

\* The redirect statuses.
RedirectStatuses == {301, 302, 303, 307, 308}

\* C34: when redirects are followed and the answer is a redirect without
\* a Location header, the call ends with the error that tells so, and no
\* other request is dispatched.
C34_MissingLocationEndsCall ==
  [][( /\ xfer.pc = "received"
       /\ xfer.status \in RedirectStatuses
       /\ xfer.loc = <<>>
       /\ xopt.FollowRedirects )
       => /\ xfer'.pc = "done"
          /\ res'[Caller].err = Error("nolocation", 0)
          /\ req' = req
          /\ xfer'.hops = xfer.hops]_vars

C34_Witness ==
  /\ xfer.pc = "done"
  /\ xfer.status = 302
  /\ xfer.loc = <<>>
  /\ xopt.FollowRedirects
  /\ xres.err = Error("nolocation", 0)

(***************************************************************************)
(* Properties of the hops of a call.                                       *)
(***************************************************************************)
\* C35: the request of a followed hop goes to the URL that doRequest
\* resolved from the Location of the redirect and the URL of the request
\* that received it (the URL it calls itself with), whether or not the
\* configuration names a protocol scheme.
C35_HopGoesToResolvedURL ==
  [][( /\ pc[Caller] = "ready"
       /\ cur.dispatched >= 1
       /\ pc'[Caller] = "sent" )
       => req'[Caller].url = cur.url]_vars

\* C36: doRequest handles an answer as a redirect exactly when its status
\* is 301, 302, 303, 307 or 308: such an answer is returned as it came when
\* redirects are not followed, refused for want of a Location, or followed
\* by another request; an answer with any other status ends the call as
\* its result, and no other request is dispatched.
C36_RedirectStatusesOnly ==
  [][xfer.pc = "received" =>
       IF xfer.status \in RedirectStatuses
       THEN \/ /\ ~xopt.FollowRedirects
               /\ xfer'.pc = "done"
               /\ res'[Caller].err = NoError
               /\ res'[Caller].resp.StatusCode = xfer.status
               /\ xfer'.file = NoFile
            \/ /\ xopt.FollowRedirects /\ xfer.loc = <<>>
               /\ xfer'.pc = "done"
               /\ res'[Caller].err = Error("nolocation", 0)
            \/ /\ xopt.FollowRedirects /\ xfer.loc # <<>>
               /\ xfer'.hops = xfer.hops + 1
       ELSE /\ xfer'.pc = "done"
            /\ xfer'.hops = xfer.hops
            /\ req' = req
            /\ res'[Caller].err = NoError => res'[Caller].resp.StatusCode = xfer.status]_vars

C36_Witness ==
  /\ xfer.pc = "done"
  /\ xfer.status = 300
  /\ xfer.loc # <<>>
  /\ xfer.hops = 0
  /\ xopt.FollowRedirects
  /\ xres.err = NoError
  /\ xres.resp.StatusCode = 300

\* C37: a payload given with a method other than POST, PUT and PATCH is
\* ignored: the request goes out without a body, whatever the payload; and
\* the hop that follows a redirect without the method being preserved is a
\* GET without a body.
C37_PayloadOnlyWithBodyMethods ==
  /\ (pc[Caller] = "sent" /\ curReq.method \notin {"POST", "PUT", "PATCH"})
       => ~curReq.hasBody /\ curReq.body = <<>>
  /\ ( /\ pc[Caller] = "ret" /\ cur.dispatched = 0
       /\ cur.method \notin {"POST", "PUT", "PATCH"} )
       => curRes.err.kind # "payload"
  /\ (pc[Caller] = "sent" /\ cur.dispatched >= 2 /\ ~curOpt.PreserveMethodOnRedirect)
       => curReq.method = "GET" /\ ~curReq.hasBody

C37_Witness ==
  /\ pc[Caller] = "sent"
  /\ cur.dispatched = 1
  /\ curReq.method = "GET"
  /\ cur.payload.kind = "bad"
  /\ ~curReq.hasBody

(***************************************************************************)
(* Properties of the Client's global Option.                               *)
(***************************************************************************)
\* C38: no step of a call made through the Client changes the headers or
\* the cookies of the Client's global Option, whether the calls run one
\* after the other or at the same time.
C38_GlobalHeadersKept ==
  [][/\ opts'[0].Header = opts[0].Header
     /\ opts'[0].Cookies = opts[0].Cookies]_vars

C38_Witness ==
  /\ \A p \in Procs : pc[p] = "done"
  /\ opts[0].Header = HeaderSet(NoHeader, "X", GlobalValue)
  /\ opts[0].Cookies = <<[Name |-> "c", Value |-> GlobalValue]>>
  /\ \E s \in Slots \ {0} :
       /\ "Cookie" \in DOMAIN opts[s].Header
       /\ "K" \in DOMAIN opts[s].Header

(***************************************************************************)
(* Properties of options.New.                                              *)
(***************************************************************************)
\* C39: the Option that options.New makes for an Option it did not make
\* itself holds the caller's value in every field the caller set and the
\* default in every other field; MaxRedirects, left unset, is 10.
C39_NewKeepsDefaults ==
  (pc[Caller] \in {"sent", "ret"} /\ cur.o = TempSlot(Caller) /\ ~cur.local.initialised) =>
     LET l == cur.local
         o == curOpt
     IN  /\ o.initialised
         /\ o.MaxRedirects = IF l.MaxRedirects # 0 THEN l.MaxRedirects
                              ELSE DefaultMaxRedirects
         /\ o.FollowRedirects = l.FollowRedirects
         /\ o.PreserveMethodOnRedirect = l.PreserveMethodOnRedirect
         /\ o.ProtocolScheme = l.ProtocolScheme
         /\ o.Compression = l.Compression
         /\ o.UniqueIdentifierType = IF l.UniqueIdentifierType # IdentifierNone
                                      THEN l.UniqueIdentifierType ELSE "ulid"
         /\ o.ResponseWriter = IF l.ResponseWriter.Type # "" THEN l.ResponseWriter
                                ELSE BufferWriter

====
